---- MODULE Spec2Model ----
(***************************************************************************)
(* Model of the topology library (src/core.h, src/core.cc): the directed   *)
(* multigraph container, the BFS diameter, the basic and composite         *)
(* topology generators, the Cartesian product and the convert-on-mutate    *)
(* policy.                                                                 *)
(*                                                                         *)
(* A graph object is a record                                              *)
(*   kind        dynamic type of the object ("Graph", "URing", ...)        *)
(*   name        graph_bundle.name, a sequence of characters               *)
(*   vs          vertex ids, indexed by vertex descriptor (1-based here)   *)
(*   out         out-edge lists: out[v] is the sequence of target          *)
(*               descriptors of v, in insertion order (vecS out-edge list) *)
(*   dimension_  size member of URing/BRing/UMesh/BMesh/OPG                *)
(*   dimensions_ canonical dimension vector of BGrid/BTorus                *)
(***************************************************************************)
EXTENDS Integers, Sequences, FiniteSets, TLC

VARIABLES
    g,      \* the graph object under test
    h,      \* the second operand of a product
    p,      \* the result of the last gproduct call
    inp,    \* the constructor call under test: [kind, N, dims]
    op,     \* the last call made: [name, a, b, ret]
    nmut    \* number of add_vertex / add_edge calls made on g

vars == <<g, h, p, inp, op, nmut>>

----------------------------------------------------------------------------
(* Bounds of the model *)

\* Object life cycle: largest size N of a basic generator
MaxN == 3
\* Object life cycle: largest entry and largest length of a dimension list
MaxDim == 2
MaxDims == 2
\* Object life cycle: largest number of mutations of the object
MaxMut == 2
\* Object life cycle: ids passed to add_vertex and add_edge are 0..MaxId
MaxId == 2
\* Plain graphs are grown up to this many vertices and edges
MaxVertices == 3
MaxEdges == 3
\* Product operands: generator size, number of mutations of the left one and
\* largest id passed to them
PMaxN == 3
PMaxMut == 1
PMaxId == 1
\* Constructor calls: largest size N, largest entry and largest length of a
\* dimension list
GenMaxN == 4
GenMaxDim == 3
GenMaxDims == 3

\* Mutated products: size of the operands, number of mutations of the result
\* and largest id passed to them
PlainMaxN == 2
PlainMaxMut == 1
PlainMaxId == 1

\* Repeated diameter reads: size of the plain graph and largest id
CacheMaxVertices == 2
CacheMaxEdges == 2
CacheMaxId == 1

\* Vertex-pair encoding: largest small id of the first graph and largest
\* small size of the second graph
CodecMaxA == 3
CodecMaxN == 3

\* Views and products of one instance: size of the instance, entries of its
\* dimension list and number of mutations; CopyMaxN, CopyMaxDim and
\* CopyMaxMut are those of the copied instance and of the mutations of the
\* instance and its copy together
FrameMaxN == 2
FrameMaxDim == 2
FrameMaxMut == 1
CopyMaxN == 2
CopyMaxDim == 2
CopyMaxMut == 2

Ids == 0..MaxId
\* Ids of the vertices of plain graphs: one for each of three vertices
GraphIds == 0..2
PIds == 0..PMaxId

----------------------------------------------------------------------------
(* Display names, as character sequences *)

NameGeneric == <<"G", "e", "n", "e", "r", "i", "c">>
NameURing == <<"U", "R", "i", "n", "g">>
NameBRing == <<"B", "R", "i", "n", "g">>
NameUMesh == <<"U", "M", "e", "s", "h">>
NameBMesh == <<"B", "M", "e", "s", "h">>
NameOPG == <<"O", "P", "G">>

BasicKinds == {"URing", "BRing", "UMesh", "BMesh", "OPG"}
CompositeKinds == {"BGrid", "BTorus"}
SpecializedKinds == BasicKinds \cup CompositeKinds

----------------------------------------------------------------------------
(* Graph Model *)

\* Graph::Graph(): empty graph named "Generic"
Graph_ctor ==
    [kind |-> "Graph", name |-> NameGeneric, vs |-> <<>>, out |-> <<>>,
     dimension_ |-> 0, dimensions_ |-> <<>>]

\* A constructor that threw std::invalid_argument: no object exists
invalid_argument ==
    [kind |-> "invalid_argument", name |-> <<>>, vs |-> <<>>, out |-> <<>>,
     dimension_ |-> 0, dimensions_ |-> <<>>]

\* Graph::Graph(const BaseGraph &other): the vertices and edges of other in
\* a new object of class Graph with proxies of its own, then the name
\* "Generic"
Graph_ctor_BaseGraph(other) ==
    [Graph_ctor EXCEPT !.vs = other.vs, !.out = other.out]

\* Graph &operator=(const BaseGraph &other): BaseGraph::operator= replaces
\* the vertices, the edges and the graph property (the name) of *this; the
\* class of *this and its shape record are not part of BaseGraph and stay
Graph_operator_assign(this, other) ==
    [this EXCEPT !.name = other.name, !.vs = other.vs, !.out = other.out]

\* Graph c = other: the implicitly generated Graph(const Graph &) copies the
\* BaseGraph (vertices, edges, name) into an object of class Graph. It also
\* copies the six proxies member by member, and a proxy is a reference to
\* the graph it was made for: the views of the copy read other, not the copy
Graph_ctor_copy(other) ==
    [other EXCEPT !.kind = "Graph", !.dimension_ = 0, !.dimensions_ = <<>>]

\* gproduct ends in `return result;` for a local Graph. A build may elide
\* that return (the local is the returned object) or not: then the implicit
\* Graph(Graph &&) builds the returned object, copies the proxies of the
\* local with their references to it, and the local is destroyed. Every view
\* of the returned graph then reads the destroyed local, whose storage is
\* released and may be reused: the read is undefined.
\*
\* The names such a read may find: the name still there, or an empty one
DestroyedNames(result) == {result.name, <<>>}

\* What getDiameter_impl may return when it runs on the destroyed local. With
\* the vertex count still there and the out-edge lists arbitrary it is -1 or
\* a distance below the count; with the count itself arbitrary it is any
\* int, for which the value Len(result.vs) stands here
DestroyedDiameters(result) == (-1)..Len(result.vs)

\* The exceptions a read of the destroyed local may throw: getDiameter_impl
\* builds std::vector<int> distances(boost::num_vertices(g), -1) with the
\* count it finds, and NumDimensionsProxy builds name.substr(0, 6) of the
\* name it finds
DestroyedThrows == {"std::bad_alloc", "std::length_error"}

\* K p = other for other of a specialized class K: the implicitly generated
\* K(const K &) copies the Graph base as Graph(const Graph &) does, then the
\* members of K: dimension_ or dimensions_, and the dimension or dimensions
\* proxy, which refers to other as the six proxies of the base do. p is an
\* object of class K: its add_vertex and add_edge are the overrides of K
Class_ctor_copy(other) ==
    [Graph_ctor_copy(other) EXCEPT !.kind = other.kind,
                                   !.dimension_ = other.dimension_,
                                   !.dimensions_ = other.dimensions_]

\* add_vertex that also resets the name, as the overrides of the
\* specialized classes do
Graph_add_vertex_Renaming(gr, id) ==
    [gr EXCEPT !.vs = Append(@, id), !.out = Append(@, <<>>),
               !.name = <<"G", "e", "n", "e", "r", "i", "c">>]

\* Graph::add_vertex: boost::add_vertex appends a descriptor, then sets its id
Graph_add_vertex(gr, id) ==
    [gr EXCEPT !.vs = Append(@, id), !.out = Append(@, <<>>)]

\* An id scan that stops at the first match
FindVertex_First(vs, i) ==
    LET matches == {k \in 1..Len(vs) : vs[k] = i}
    IN  IF matches = {} THEN 0
        ELSE CHOOSE k \in matches : \A m \in matches : k <= m

\* The id scan of Graph::add_edge: every match overwrites the previous one,
\* so the scan ends with the last descriptor whose id equals i, or with
\* null_vertex (0 here) when there is none
FindVertex(vs, i) ==
    LET matches == {k \in 1..Len(vs) : vs[k] = i}
    IN  IF matches = {} THEN 0
        ELSE CHOOSE k \in matches : \A m \in matches : m <= k

\* Graph::add_edge with source and target exchanged
Graph_add_edge_Reversed(gr, i, j) ==
    LET v_i == FindVertex(gr.vs, i)
        v_j == FindVertex(gr.vs, j)
    IN  IF v_i # 0 /\ v_j # 0
        THEN [gr EXCEPT !.out[v_j] = Append(@, v_i)]
        ELSE gr

\* Graph::add_edge creating the vertices it does not find
Graph_add_edge_AddsMissing(gr, i, j) ==
    LET g1 == IF FindVertex(gr.vs, i) = 0 THEN Graph_add_vertex(gr, i) ELSE gr
        g2 == IF FindVertex(g1.vs, j) = 0 THEN Graph_add_vertex(g1, j) ELSE g1
    IN  [g2 EXCEPT !.out[FindVertex(g2.vs, i)] = Append(@, FindVertex(g2.vs, j))]

\* Graph::add_edge: adds the edge only when both ids were found
Graph_add_edge(gr, i, j) ==
    LET v_i == FindVertex(gr.vs, i)
        v_j == FindVertex(gr.vs, j)
    IN  IF v_i # 0 /\ v_j # 0
        THEN [gr EXCEPT !.out[v_i] = Append(@, v_j)]
        ELSE gr

\* TLC evaluates the arguments of an operator on demand. The loops below start
\* by evaluating the graph built so far, as the statements before a C++ loop
\* have completed when the loop starts.
Built(gr) == gr.kind = gr.kind

\* A loop of Graph::add_vertex calls: add_vertex(ids[lo]), ..., add_vertex(ids[hi])
\* in this order. The range is split in halves to keep the evaluation shallow.
RECURSIVE AddVertexCalls(_, _, _, _)
AddVertexCalls(gr, ids, lo, hi) ==
    IF Built(gr) /\ lo > hi THEN gr
    ELSE IF lo = hi THEN Graph_add_vertex(gr, ids[lo])
    ELSE LET mid == (lo + hi) \div 2
         IN  AddVertexCalls(AddVertexCalls(gr, ids, lo, mid), ids, mid + 1, hi)

\* A loop of Graph::add_edge calls: add_edge(calls[k][1], calls[k][2]) for
\* k = lo, ..., hi in this order
RECURSIVE AddEdgeCalls(_, _, _, _)
AddEdgeCalls(gr, calls, lo, hi) ==
    IF Built(gr) /\ lo > hi THEN gr
    ELSE IF lo = hi THEN Graph_add_edge(gr, calls[lo][1], calls[lo][2])
    ELSE LET mid == (lo + hi) \div 2
         IN  AddEdgeCalls(AddEdgeCalls(gr, calls, lo, mid), calls, mid + 1, hi)

\* NumVerticesProxy::operator size_t
num_vertices(gr) == Len(gr.vs)

\* Number of out-edges of the vertices lo..hi
RECURSIVE CountEdges(_, _, _)
CountEdges(out, lo, hi) ==
    IF lo > hi THEN 0
    ELSE IF lo = hi THEN Len(out[lo])
    ELSE LET mid == (lo + hi) \div 2
         IN  CountEdges(out, lo, mid) + CountEdges(out, mid + 1, hi)

\* NumEdgesProxy::operator size_t
num_edges(gr) == CountEdges(gr.out, 1, Len(gr.out))

\* VerticesProxy: ids in descriptor order
VerticesProxy(gr) == gr.vs

\* boost::edges of a directed vecS/vecS adjacency_list walks the vertices in
\* descriptor order and each out-edge list in insertion order
RECURSIVE EdgesFrom(_, _, _)
EdgesFrom(gr, lo, hi) ==
    IF lo > hi THEN <<>>
    ELSE IF lo = hi
    THEN [k \in 1..Len(gr.out[lo]) |-> <<gr.vs[lo], gr.vs[gr.out[lo][k]]>>]
    ELSE LET mid == (lo + hi) \div 2
         IN  EdgesFrom(gr, lo, mid) \o EdgesFrom(gr, mid + 1, hi)

\* EdgesProxy: the (source id, target id) pairs in container order
EdgesProxy(gr) == EdgesFrom(gr, 1, Len(gr.vs))

----------------------------------------------------------------------------
(* Diameter Engine *)

\* Inner loop over the out-edges of the dequeued vertex
RECURSIVE VisitOutEdges(_, _, _, _, _)
VisitOutEdges(targets, k, current, distances, queue) ==
    IF k > Len(targets) THEN <<distances, queue>>
    ELSE LET target == targets[k] IN
         IF distances[target] = -1
         THEN VisitOutEdges(targets, k + 1, current,
                            [distances EXCEPT ![target] = distances[current] + 1],
                            Append(queue, target))
         ELSE VisitOutEdges(targets, k + 1, current, distances, queue)

\* One iteration of while (!queue.empty()): dequeue, visit the out-edges.
\* st is <<distances, queue>>; with an empty queue the loop has ended and
\* nothing changes.
BFSStep(gr, st) ==
    IF st[2] = <<>> THEN st
    ELSE LET current == Head(st[2])
         IN  VisitOutEdges(gr.out[current], 1, current, st[1], Tail(st[2]))

\* n iterations of the while loop, one after the other
RECURSIVE BFSSteps(_, _, _)
BFSSteps(gr, st, n) ==
    IF st[2] = <<>> \/ n = 0 THEN st
    ELSE IF n = 1 THEN BFSStep(gr, st)
    ELSE BFSSteps(gr, BFSSteps(gr, st, n \div 2), n - (n \div 2))

\* while (!queue.empty()) loop: a vertex is pushed only when its distance is
\* still -1 and gets a distance when it is pushed, so the loop ends within
\* num_vertices iterations
BFSLoop(gr, distances, queue) == BFSSteps(gr, <<distances, queue>>, Len(gr.vs))[1]

\* ScanDistances without the test for an unreached vertex
RECURSIVE ScanDistances_NoSentinel(_, _, _, _)
ScanDistances_NoSentinel(distances, lo, hi, max_distance) ==
    IF lo > hi THEN max_distance
    ELSE IF distances[lo] > max_distance
    THEN ScanDistances_NoSentinel(distances, lo + 1, hi, distances[lo])
    ELSE ScanDistances_NoSentinel(distances, lo + 1, hi, max_distance)

\* Scan of the distances lo..hi of one source: -1 as soon as one is
\* unreached, otherwise the running maximum
RECURSIVE ScanDistances(_, _, _, _)
ScanDistances(distances, lo, hi, max_distance) ==
    IF lo > hi THEN max_distance
    ELSE IF lo = hi
    THEN IF distances[lo] = -1 THEN -1
         ELSE IF distances[lo] > max_distance THEN distances[lo] ELSE max_distance
    ELSE LET mid == (lo + hi) \div 2
             m == ScanDistances(distances, lo, mid, max_distance)
         IN  IF m = -1 THEN -1 ELSE ScanDistances(distances, mid + 1, hi, m)

\* One iteration of the loop over the sources: BFS from source, then the scan
OneSource(gr, source, max_distance) ==
    LET init == [v \in 1..Len(gr.vs) |-> IF v = source THEN 0 ELSE -1]
        distances == BFSLoop(gr, init, <<source>>)
    IN  ScanDistances(distances, 1, Len(distances), max_distance)

\* Loop over the sources lo..hi in order, leaving with -1 at the first
\* source that does not reach every vertex
RECURSIVE SourceLoop(_, _, _, _)
SourceLoop(gr, lo, hi, max_distance) ==
    IF lo > hi THEN max_distance
    ELSE IF lo = hi THEN OneSource(gr, lo, max_distance)
    ELSE LET mid == (lo + hi) \div 2
             m == SourceLoop(gr, lo, mid, max_distance)
         IN  IF m = -1 THEN -1 ELSE SourceLoop(gr, mid + 1, hi, m)

\* Graph::getDiameter_impl
getDiameter_impl(gr) ==
    IF Len(gr.vs) = 0 THEN -1
    ELSE IF Len(gr.vs) = 1 THEN 0
    ELSE SourceLoop(gr, 1, Len(gr.vs), 0)

\* Graph::getDiameter
Graph_getDiameter(gr) == getDiameter_impl(gr)

----------------------------------------------------------------------------
(* Topology Generators *)

\* for (i = 0; i < N; ++i) Graph::add_vertex(i): the ids passed, in order
VertexIds(N) == [k \in 1..N |-> k - 1]

\* Edge loop of URing: add_edge(i, (i + 1) % N) for i = 0..N-1
URingEdgeCalls(N) == [k \in 1..N |-> <<k - 1, k % N>>]

\* Edge loop of BRing: add_edge(i, next) then add_edge(next, i) for i = 0..N-1
BRingEdgeCalls(N) ==
    [k \in 1..(2 * N) |->
        LET i == (k - 1) \div 2
            next == (i + 1) % N
        IN  IF k % 2 = 1 THEN <<i, next>> ELSE <<next, i>>]

\* Edge loop of UMesh with source and target exchanged
UMeshEdgeCalls_Reversed(N) == [k \in 1..(N - 1) |-> <<k, k - 1>>]

\* Edge loop of UMesh: add_edge(i, i + 1) for i = 0..N-2
UMeshEdgeCalls(N) == [k \in 1..(N - 1) |-> <<k - 1, k>>]

\* Edge loop of BMesh: add_edge(i, i + 1) then add_edge(i + 1, i) for i = 0..N-2
BMeshEdgeCalls(N) ==
    [k \in 1..(2 * (N - 1)) |->
        LET i == (k - 1) \div 2
        IN  IF k % 2 = 1 THEN <<i, i + 1>> ELSE <<i + 1, i>>]

\* URing::URing(N)
URing_ctor(N) ==
    IF N = 0 THEN invalid_argument
    ELSE LET g0 == [Graph_ctor EXCEPT !.kind = "URing", !.name = NameURing,
                                      !.dimension_ = N]
             g1 == AddVertexCalls(g0, VertexIds(N), 1, N)
         IN  IF N > 1 THEN AddEdgeCalls(g1, URingEdgeCalls(N), 1, N) ELSE g1

\* BRing::BRing(N)
BRing_ctor(N) ==
    IF N = 0 THEN invalid_argument
    ELSE LET g0 == [Graph_ctor EXCEPT !.kind = "BRing", !.name = NameBRing,
                                      !.dimension_ = N]
             g1 == AddVertexCalls(g0, VertexIds(N), 1, N)
         IN  IF N > 1 THEN AddEdgeCalls(g1, BRingEdgeCalls(N), 1, 2 * N) ELSE g1

\* UMesh::UMesh(N)
UMesh_ctor(N) ==
    IF N = 0 THEN invalid_argument
    ELSE LET g0 == [Graph_ctor EXCEPT !.kind = "UMesh", !.name = NameUMesh,
                                      !.dimension_ = N]
             g1 == AddVertexCalls(g0, VertexIds(N), 1, N)
         IN  IF N > 1 THEN AddEdgeCalls(g1, UMeshEdgeCalls(N), 1, N - 1) ELSE g1

\* BMesh::BMesh(N)
BMesh_ctor(N) ==
    IF N = 0 THEN invalid_argument
    ELSE LET g0 == [Graph_ctor EXCEPT !.kind = "BMesh", !.name = NameBMesh,
                                      !.dimension_ = N]
             g1 == AddVertexCalls(g0, VertexIds(N), 1, N)
         IN  IF N > 1 THEN AddEdgeCalls(g1, BMeshEdgeCalls(N), 1, 2 * (N - 1)) ELSE g1

\* OPG::OPG()
OPG_ctor ==
    Graph_add_vertex([Graph_ctor EXCEPT !.kind = "OPG", !.name = NameOPG,
                                        !.dimension_ = 1], 0)

\* URing::getDiameter
URing_getDiameter(gr) ==
    IF gr.dimension_ = 0 THEN -1
    ELSE IF gr.dimension_ = 1 THEN 0
    ELSE gr.dimension_ \div 2

\* BRing::getDiameter
BRing_getDiameter(gr) ==
    IF gr.dimension_ = 0 THEN -1
    ELSE IF gr.dimension_ = 1 THEN 0
    ELSE gr.dimension_ \div 2

\* UMesh::getDiameter with the closed form of the rings
UMesh_getDiameter_Half(gr) ==
    IF gr.dimension_ = 0 THEN -1
    ELSE IF gr.dimension_ = 1 THEN 0
    ELSE gr.dimension_ \div 2

\* UMesh::getDiameter
UMesh_getDiameter(gr) ==
    IF gr.dimension_ = 0 THEN -1
    ELSE IF gr.dimension_ = 1 THEN 0
    ELSE gr.dimension_ - 1

\* BMesh::getDiameter
BMesh_getDiameter(gr) ==
    IF gr.dimension_ = 0 THEN -1
    ELSE IF gr.dimension_ = 1 THEN 0
    ELSE gr.dimension_ - 1

\* OPG::getDiameter
OPG_getDiameter(gr) == 0

----------------------------------------------------------------------------
(* Cartesian Product Engine *)

\* encode_vertex_pair with the roles of the two ids exchanged
encode_vertex_pair_Exchanged(g1_id, g2_id, g2_size) == g1_id + g2_id * g2_size

\* gproduct_utils::encode_vertex_pair
encode_vertex_pair(g1_id, g2_id, g2_size) == g1_id * g2_size + g2_id

\* Largest and smallest int32_t
Int32Max == 2147483647
Int32Min == (-Int32Max) - 1

\* a * n + b is representable as int32_t (a, b >= 0, n >= 1); written so
\* that no intermediate value leaves the range
FitsInt32(a, b, n) == b <= Int32Max /\ a <= (Int32Max - b) \div n

\* x + y of two int32_t values in two's complement, reduced modulo 2^32 into
\* the int32_t range; written so that no intermediate value leaves the range
AddWrap(x, y) ==
    IF x > 0 /\ y > 0 /\ y > Int32Max - x
    THEN (((x - Int32Max) - 1) + y - Int32Max) - 1
    ELSE IF x < 0 /\ y < 0 /\ y < Int32Min - x
    THEN (((x + Int32Max) + 1) + y + Int32Max) + 1
    ELSE x + y

\* a * n of two int32_t values a, n >= 0, reduced modulo 2^32 into the
\* int32_t range; computed on 16-bit and 8-bit limbs so that no intermediate
\* value leaves the range
MulWrap(a, n) ==
    LET a0 == a % 65536
        a1 == a \div 65536
        n0 == n % 65536
        n1 == n \div 65536
        t0 == a0 * (n0 % 256)
        t1 == a0 * (n0 \div 256)
        low == t0 + (t1 % 256) * 256
        cross == ((a1 * n0) % 65536) + ((a0 * n1) % 65536)
        lo == low % 65536
        hi == ((low \div 65536) + (t1 \div 256) + cross) % 65536
    IN  IF hi >= 32768 THEN (hi - 65536) * 65536 + lo ELSE hi * 65536 + lo

\* g1_id * g2_size + g2_id as a build without overflow checks computes it:
\* the 32-bit two's complement result
encode_vertex_pair_Wrapped(g1_id, g2_id, g2_size) ==
    AddWrap(MulWrap(g1_id, g2_size), g2_id)

\* Integer division and remainder of C++ by a divisor y > 0: the quotient is
\* truncated toward 0, where \div rounds down
TruncDiv(x, y) ==
    IF x < 0 /\ x % y # 0 THEN (x \div y) + 1 ELSE x \div y

\* The remainder has the sign of the dividend, where % is never negative
TruncRem(x, y) ==
    IF x < 0 /\ x % y # 0 THEN (x % y) - y ELSE x % y

\* decode_vertex_pair with the two components exchanged
decode_vertex_pair_Swapped(product_id, g2_size) ==
    <<TruncRem(product_id, g2_size), TruncDiv(product_id, g2_size)>>

\* gproduct_utils::decode_vertex_pair; g2_size <= Int32Max, so the cast of
\* g2_size to int32_t keeps its value
decode_vertex_pair(product_id, g2_size) ==
    <<TruncDiv(product_id, g2_size), TruncRem(product_id, g2_size)>>

\* The " (x) " separator of the product name: a space, the three UTF-8
\* bytes of the tensor sign, a space
NameTensor == <<" ", "E2", "8A", "97", " ">>

\* ProductVertexIds encoding the positions i, j instead of the ids
ProductVertexIds_Positional(g1_vertices, g2_vertices) ==
    LET n2 == Len(g2_vertices)
    IN  [k \in 1..(Len(g1_vertices) * n2) |->
            encode_vertex_pair((k - 1) \div n2, (k - 1) % n2, n2)]

\* Vertex loops of gproduct: for i, for j: the ids passed to add_vertex
ProductVertexIds(g1_vertices, g2_vertices) ==
    LET n2 == Len(g2_vertices)
    IN  [k \in 1..(Len(g1_vertices) * n2) |->
            encode_vertex_pair(g1_vertices[((k - 1) \div n2) + 1],
                               g2_vertices[((k - 1) % n2) + 1], n2)]

\* Edge loops for the first factor: for (u1, u2) in g1.edges, for j: the
\* (from_id, to_id) pairs passed to add_edge
ProductEdgeCallsG1(g1_edges, g2_vertices) ==
    LET n2 == Len(g2_vertices)
    IN  [k \in 1..(Len(g1_edges) * n2) |->
            LET e == g1_edges[((k - 1) \div n2) + 1]
                v == g2_vertices[((k - 1) % n2) + 1]
            IN  <<encode_vertex_pair(e[1], v, n2), encode_vertex_pair(e[2], v, n2)>>]

\* ProductEdgeCallsG2 encoding with the size of the first factor
ProductEdgeCallsG2_WrongSize(g2_edges, g1_vertices, g2_num_vertices) ==
    LET n1 == Len(g1_vertices)
    IN  [k \in 1..(Len(g2_edges) * n1) |->
            LET e == g2_edges[((k - 1) \div n1) + 1]
                u == g1_vertices[((k - 1) % n1) + 1]
            IN  <<encode_vertex_pair(u, e[1], n1), encode_vertex_pair(u, e[2], n1)>>]

\* Edge loops for the second factor: for (v1, v2) in g2.edges, for i
ProductEdgeCallsG2(g2_edges, g1_vertices, g2_num_vertices) ==
    LET n1 == Len(g1_vertices)
    IN  [k \in 1..(Len(g2_edges) * n1) |->
            LET e == g2_edges[((k - 1) \div n1) + 1]
                u == g1_vertices[((k - 1) % n1) + 1]
            IN  <<encode_vertex_pair(u, e[1], g2_num_vertices),
                  encode_vertex_pair(u, e[2], g2_num_vertices)>>]

\* gproduct(g1, g2): a plain Graph
gproduct(g1, g2) ==
    LET r0 == [Graph_ctor EXCEPT !.name = g1.name \o NameTensor \o g2.name]
        g1_vertices == VerticesProxy(g1)
        g2_vertices == VerticesProxy(g2)
        ids == ProductVertexIds(g1_vertices, g2_vertices)
        r1 == AddVertexCalls(r0, ids, 1, Len(ids))
        c1 == ProductEdgeCallsG1(EdgesProxy(g1), g2_vertices)
        r2 == AddEdgeCalls(r1, c1, 1, Len(c1))
        c2 == ProductEdgeCallsG2(EdgesProxy(g2), g1_vertices, Len(g2_vertices))
    IN  AddEdgeCalls(r2, c2, 1, Len(c2))

----------------------------------------------------------------------------
(* Dimension Canonicalizer and Composite Builders *)

Digits == <<"0", "1", "2", "3", "4", "5", "6", "7", "8", "9">>

\* std::to_string of a size_t: the decimal digits, most significant first
RECURSIVE to_string(_)
to_string(n) ==
    IF n < 10 THEN <<Digits[n + 1]>>
    ELSE to_string(n \div 10) \o <<Digits[(n % 10) + 1]>>

\* Validation that looks at the first entry only
HasZeroDim_FirstOnly(dims) == dims # <<>> /\ dims[1] = 0

\* Validation loop of BGrid::BGrid / BTorus::BTorus: some entry is 0
HasZeroDim(dims) == \E k \in 1..Len(dims) : dims[k] = 0

\* Filter loop: keeps the entries greater than 1, in input order
RECURSIVE FilterDims(_, _)
FilterDims(dims, k) ==
    IF k > Len(dims) THEN <<>>
    ELSE (IF dims[k] > 1 THEN <<dims[k]>> ELSE <<>>) \o FilterDims(dims, k + 1)

\* Insertion of x into a descending sequence
RECURSIVE InsertDescending(_, _)
InsertDescending(s, x) ==
    IF s = <<>> THEN <<x>>
    ELSE IF x > Head(s) THEN <<x>> \o s
    ELSE <<Head(s)>> \o InsertDescending(Tail(s), x)

\* One pass of exchanges of neighbours, which leaves some lists unsorted
RECURSIVE SortDescending_OnePass(_)
SortDescending_OnePass(s) ==
    IF Len(s) < 2 THEN s
    ELSE IF s[1] < s[2]
         THEN <<s[2]>> \o SortDescending_OnePass(<<s[1]>> \o Tail(Tail(s)))
         ELSE <<s[1]>> \o SortDescending_OnePass(Tail(s))

\* std::sort(begin, end, std::greater<size_t>())
RECURSIVE SortDescending(_)
SortDescending(s) ==
    IF s = <<>> THEN <<>>
    ELSE InsertDescending(SortDescending(Tail(s)), Head(s))

\* Canonicalize without the sort
Canonicalize_Unsorted(dims) ==
    IF FilterDims(dims, 1) = <<>> THEN <<1>> ELSE FilterDims(dims, 1)

\* The canonical sequence stored in dimensions_
Canonicalize(dims) ==
    LET filtered_dims == SortDescending(FilterDims(dims, 1))
    IN  IF filtered_dims = <<>> THEN <<1>> ELSE filtered_dims

\* Copy loop: add_vertex(src[*vi].id) for every vertex of src
CopyVertices(result, src) ==
    AddVertexCalls(result, VerticesProxy(src), 1, Len(VerticesProxy(src)))

\* Copy loop: add_edge(src[source].id, src[target].id) for every edge of src
CopyEdges(result, src) ==
    AddEdgeCalls(result, EdgesProxy(src), 1, Len(EdgesProxy(src)))

\* The two copy loops one after the other
CopyGraph(result, src) == CopyEdges(CopyVertices(result, src), src)

\* Name loop: d1,d2,...,dk
\* Name loop that separates the entries with a comma and a space
RECURSIVE JoinDims_Spaced(_, _)
JoinDims_Spaced(dims, i) ==
    IF i > Len(dims) THEN <<>>
    ELSE (IF i > 1 THEN <<",", " ">> ELSE <<>>) \o to_string(dims[i])
             \o JoinDims_Spaced(dims, i + 1)

RECURSIVE JoinDims(_, _)
JoinDims(dims, i) ==
    IF i > Len(dims) THEN <<>>
    ELSE (IF i > 1 THEN <<",">> ELSE <<>>) \o to_string(dims[i]) \o JoinDims(dims, i + 1)

NameBGridOpen == <<"B", "G", "r", "i", "d", "[">>
NameBTorusOpen == <<"B", "T", "o", "r", "u", "s", "[">>

\* build_product with the operands of gproduct exchanged
RECURSIVE BGrid_build_product_Exchanged(_, _)
BGrid_build_product_Exchanged(dimensions, index) ==
    IF index = 0
    THEN CopyGraph(Graph_ctor, BMesh_ctor(dimensions[1]))
    ELSE LET prev_result == BGrid_build_product_Exchanged(dimensions, index - 1)
             current_mesh == BMesh_ctor(dimensions[index + 1])
             product_result == gproduct(current_mesh, prev_result)
         IN  CopyGraph(Graph_ctor, product_result)

\* build_product lambda of BGrid::buildGrid (index is 0-based as in the code)
RECURSIVE BGrid_build_product(_, _)
BGrid_build_product(dimensions, index) ==
    IF index = 0
    THEN CopyGraph(Graph_ctor, BMesh_ctor(dimensions[1]))
    ELSE LET prev_result == BGrid_build_product(dimensions, index - 1)
             current_mesh == BMesh_ctor(dimensions[index + 1])
             product_result == gproduct(prev_result, current_mesh)
         IN  CopyGraph(Graph_ctor, product_result)

\* BGrid::buildGrid
buildGrid(this, dims) ==
    IF Len(dims) < 2 THEN this
    ELSE CopyGraph(this, BGrid_build_product(dims, Len(dims) - 1))

\* BGrid::BGrid(dimensions)
BGrid_ctor(dimensions) ==
    IF HasZeroDim(dimensions) THEN invalid_argument
    ELSE LET dims == Canonicalize(dimensions)
             this == [Graph_ctor EXCEPT !.kind = "BGrid", !.dimensions_ = dims]
         IN  IF dims = <<>> \/ (Len(dims) = 1 /\ dims[1] = 1)
             THEN [CopyVertices(this, OPG_ctor)
                      EXCEPT !.name = NameBGridOpen \o <<"]">>]
             ELSE IF Len(dims) = 1
             THEN [CopyGraph(this, BMesh_ctor(dims[1]))
                      EXCEPT !.name = NameBGridOpen \o to_string(dims[1]) \o <<"]">>]
             ELSE [buildGrid(this, dims)
                      EXCEPT !.name = NameBGridOpen \o JoinDims(dims, 1) \o <<"]">>]

\* build_product lambda of BTorus::buildTorus
RECURSIVE BTorus_build_product(_, _)
BTorus_build_product(dimensions, index) ==
    IF index = 0
    THEN CopyGraph(Graph_ctor, BRing_ctor(dimensions[1]))
    ELSE LET prev_result == BTorus_build_product(dimensions, index - 1)
             current_ring == BRing_ctor(dimensions[index + 1])
             product_result == gproduct(prev_result, current_ring)
         IN  CopyGraph(Graph_ctor, product_result)

\* BTorus::buildTorus
buildTorus(this, dims) ==
    IF Len(dims) < 2 THEN this
    ELSE CopyGraph(this, BTorus_build_product(dims, Len(dims) - 1))

\* BTorus::BTorus(dimensions)
BTorus_ctor(dimensions) ==
    IF HasZeroDim(dimensions) THEN invalid_argument
    ELSE LET dims == Canonicalize(dimensions)
             this == [Graph_ctor EXCEPT !.kind = "BTorus", !.dimensions_ = dims]
         IN  IF dims = <<>> \/ (Len(dims) = 1 /\ dims[1] = 1)
             THEN [CopyVertices(this, OPG_ctor)
                      EXCEPT !.name = NameBTorusOpen \o <<"]">>]
             ELSE IF Len(dims) = 1
             THEN [CopyGraph(this, BRing_ctor(dims[1]))
                      EXCEPT !.name = NameBTorusOpen \o to_string(dims[1]) \o <<"]">>]
             ELSE [buildTorus(this, dims)
                      EXCEPT !.name = NameBTorusOpen \o JoinDims(dims, 1) \o <<"]">>]

\* Loop of BGrid::calculateGridEdges: the gproduct edge formula, factor by factor
RECURSIVE GridEdgesLoop(_, _, _, _)
GridEdgesLoop(dims, i, vertices1, edges1) ==
    IF i > Len(dims) THEN edges1
    ELSE LET vertices2 == dims[i]
             edges2 == 2 * (dims[i] - 1)
             new_edges == vertices1 * edges2 + edges1 * vertices2
             new_vertices == vertices1 * vertices2
         IN  GridEdgesLoop(dims, i + 1, new_vertices, new_edges)

\* BGrid::calculateGridEdges stopping after the first dimension
calculateGridEdges_FirstOnly(dims) == 2 * (dims[1] - 1)

\* BGrid::calculateGridEdges
calculateGridEdges(dims) ==
    IF dims = <<>> THEN 0
    ELSE IF Len(dims) = 1 THEN 2 * (dims[1] - 1)
    ELSE GridEdgesLoop(dims, 2, dims[1], 2 * (dims[1] - 1))

\* Loop of BTorus::calculateTorusEdges
RECURSIVE TorusEdgesLoop(_, _, _, _)
TorusEdgesLoop(dims, i, vertices1, edges1) ==
    IF i > Len(dims) THEN edges1
    ELSE LET vertices2 == dims[i]
             edges2 == 2 * dims[i]
             new_edges == vertices1 * edges2 + edges1 * vertices2
             new_vertices == vertices1 * vertices2
         IN  TorusEdgesLoop(dims, i + 1, new_vertices, new_edges)

\* BTorus::calculateTorusEdges
calculateTorusEdges(dims) ==
    IF dims = <<>> THEN 0
    ELSE IF Len(dims) = 1 THEN 2 * dims[1]
    ELSE TorusEdgesLoop(dims, 2, dims[1], 2 * dims[1])

\* Result of a call that returns a size_t or throws
Returned(n) == [thrown |-> "none", value |-> n]
out_of_range == [thrown |-> "out_of_range", value |-> 0]

\* Index operator that clamps the index to the last entry instead of throwing
MultiDimensionProxy_index_Clamped(gr, index) ==
    LET dims == gr.dimensions_
    IN  Returned(dims[IF index >= Len(dims) THEN Len(dims) ELSE index + 1])

\* MultiDimensionProxy::operator[]: index counts from 0
MultiDimensionProxy_index(gr, index) ==
    LET dims == gr.dimensions_
    IN  IF index >= Len(dims) THEN out_of_range
        ELSE Returned(dims[index + 1])

\* MultiDimensionProxy::size -> GetNumDimensions
MultiDimensionProxy_size(gr) == Len(gr.dimensions_)

\* MultiDimensionProxy::get: the dimensions view of a BGrid or BTorus
MultiDimensionProxy_get(gr) == gr.dimensions_

\* Sum loop of BGrid::getDiameter
RECURSIVE SumGridDiameter(_, _)
SumGridDiameter(dims, k) ==
    IF k > Len(dims) THEN 0 ELSE (dims[k] - 1) + SumGridDiameter(dims, k + 1)

\* BGrid::getDiameter
BGrid_getDiameter(gr) ==
    IF gr.dimensions_ = <<>> THEN 0 ELSE SumGridDiameter(gr.dimensions_, 1)

\* Sum loop of BTorus::getDiameter
RECURSIVE SumTorusDiameter(_, _)
SumTorusDiameter(dims, k) ==
    IF k > Len(dims) THEN 0 ELSE (dims[k] \div 2) + SumTorusDiameter(dims, k + 1)

\* BTorus::getDiameter counting the first dimension only
BTorus_getDiameter_FirstOnly(gr) == gr.dimensions_[1] \div 2

\* BTorus::getDiameter
BTorus_getDiameter(gr) ==
    IF gr.dimensions_ = <<>> \/ (Len(gr.dimensions_) = 1 /\ gr.dimensions_[1] = 1)
    THEN 0
    ELSE IF Len(gr.dimensions_) = 1 THEN gr.dimensions_[1] \div 2
    ELSE SumTorusDiameter(gr.dimensions_, 1)

----------------------------------------------------------------------------
(* Mutation Policy and virtual dispatch *)

\* ConvertToGeneric without the assignment
ConvertToGeneric_Skipped(gr) == gr

\* ConvertToGeneric that also clears the shape record
ConvertToGeneric_Reset(gr) ==
    [gr EXCEPT !.name = NameGeneric, !.dimension_ = 0, !.dimensions_ = << >>]

\* if (name != "Generic") name = "Generic": the first statement of every
\* add_vertex / add_edge override
ConvertToGeneric(gr) ==
    IF gr.name # NameGeneric THEN [gr EXCEPT !.name = NameGeneric] ELSE gr

URing_add_vertex(gr, id) == Graph_add_vertex(ConvertToGeneric(gr), id)
URing_add_edge(gr, i, j) == Graph_add_edge(ConvertToGeneric(gr), i, j)
BRing_add_vertex(gr, id) == Graph_add_vertex(ConvertToGeneric(gr), id)
BRing_add_edge(gr, i, j) == Graph_add_edge(ConvertToGeneric(gr), i, j)
UMesh_add_vertex(gr, id) == Graph_add_vertex(ConvertToGeneric(gr), id)
UMesh_add_edge(gr, i, j) == Graph_add_edge(ConvertToGeneric(gr), i, j)
BMesh_add_vertex(gr, id) == Graph_add_vertex(ConvertToGeneric(gr), id)
BMesh_add_edge(gr, i, j) == Graph_add_edge(ConvertToGeneric(gr), i, j)
OPG_add_vertex(gr, id) == Graph_add_vertex(ConvertToGeneric(gr), id)
OPG_add_edge(gr, i, j) == Graph_add_edge(ConvertToGeneric(gr), i, j)
BGrid_add_vertex(gr, id) == Graph_add_vertex(ConvertToGeneric(gr), id)
BGrid_add_edge(gr, i, j) == Graph_add_edge(ConvertToGeneric(gr), i, j)
BTorus_add_vertex(gr, id) == Graph_add_vertex(ConvertToGeneric(gr), id)
BTorus_add_edge(gr, i, j) == Graph_add_edge(ConvertToGeneric(gr), i, j)

\* Virtual call gr.add_vertex(id), resolved on the dynamic type
add_vertex(gr, id) ==
    CASE gr.kind = "URing" -> URing_add_vertex(gr, id)
      [] gr.kind = "BRing" -> BRing_add_vertex(gr, id)
      [] gr.kind = "UMesh" -> UMesh_add_vertex(gr, id)
      [] gr.kind = "BMesh" -> BMesh_add_vertex(gr, id)
      [] gr.kind = "OPG" -> OPG_add_vertex(gr, id)
      [] gr.kind = "BGrid" -> BGrid_add_vertex(gr, id)
      [] gr.kind = "BTorus" -> BTorus_add_vertex(gr, id)
      [] OTHER -> Graph_add_vertex(gr, id)

\* Virtual call gr.add_edge(i, j)
add_edge(gr, i, j) ==
    CASE gr.kind = "URing" -> URing_add_edge(gr, i, j)
      [] gr.kind = "BRing" -> BRing_add_edge(gr, i, j)
      [] gr.kind = "UMesh" -> UMesh_add_edge(gr, i, j)
      [] gr.kind = "BMesh" -> BMesh_add_edge(gr, i, j)
      [] gr.kind = "OPG" -> OPG_add_edge(gr, i, j)
      [] gr.kind = "BGrid" -> BGrid_add_edge(gr, i, j)
      [] gr.kind = "BTorus" -> BTorus_add_edge(gr, i, j)
      [] OTHER -> Graph_add_edge(gr, i, j)

\* name.substr(0, n): the first n characters, or all of a shorter name
substr(name, n) == IF Len(name) <= n THEN name ELSE SubSeq(name, 1, n)

\* for (char c : name) if (c == ',') dimensions++
CountCommas(name) == Cardinality({k \in 1..Len(name) : name[k] = ","})

\* NumDimensionsProxy::operator size_t: the answer is read off the display name
NumDimensionsProxy(gr) ==
    LET name == gr.name
    IN  IF substr(name, 6) = NameBGridOpen
        THEN IF name = NameBGridOpen \o <<"]">> THEN 1 ELSE 1 + CountCommas(name)
        ELSE IF substr(name, 7) = NameBTorusOpen
        THEN IF name = NameBTorusOpen \o <<"]">> THEN 1 ELSE 1 + CountCommas(name)
        ELSE IF name \in {NameURing, NameBRing, NameUMesh, NameBMesh, NameOPG}
        THEN 1
        ELSE 0

\* DimensionProxy::operator size_t: the dynamic_cast chain finds the class
\* of the object, which a mutation does not change; 0 for any other class
DimensionProxy(gr) ==
    IF gr.kind \in BasicKinds THEN gr.dimension_ ELSE 0

\* operator*(g1, g2): return gproduct(g1, g2)
operator_star(g1, g2) == gproduct(g1, g2)

\* DiameterProxy::operator int: the virtual call graph_ptr->getDiameter()
DiameterProxy(gr) ==
    CASE gr.kind = "URing" -> URing_getDiameter(gr)
      [] gr.kind = "BRing" -> BRing_getDiameter(gr)
      [] gr.kind = "UMesh" -> UMesh_getDiameter(gr)
      [] gr.kind = "BMesh" -> BMesh_getDiameter(gr)
      [] gr.kind = "OPG" -> OPG_getDiameter(gr)
      [] gr.kind = "BGrid" -> BGrid_getDiameter(gr)
      [] gr.kind = "BTorus" -> BTorus_getDiameter(gr)
      [] OTHER -> Graph_getDiameter(gr)

----------------------------------------------------------------------------
(* State machines *)

\* No object constructed yet
NoGraph ==
    [kind |-> "none", name |-> <<>>, vs |-> <<>>, out |-> <<>>,
     dimension_ |-> 0, dimensions_ |-> <<>>]

NoInput == [kind |-> "none", N |-> 0, dims |-> <<>>]

Call(name, a, b, ret) == [name |-> name, a |-> a, b |-> b, ret |-> ret]

\* All sequences over S of length at most n
RECURSIVE SeqsUpTo(_, _)
SeqsUpTo(S, n) ==
    IF n = 0 THEN {<<>>}
    ELSE LET shorter == SeqsUpTo(S, n - 1)
         IN  shorter \cup {Append(s, x) : s \in shorter, x \in S}

\* The constructor call described by an input record
Construct(i) ==
    CASE i.kind = "Graph" -> Graph_ctor
      [] i.kind = "URing" -> URing_ctor(i.N)
      [] i.kind = "BRing" -> BRing_ctor(i.N)
      [] i.kind = "UMesh" -> UMesh_ctor(i.N)
      [] i.kind = "BMesh" -> BMesh_ctor(i.N)
      [] i.kind = "OPG" -> OPG_ctor
      [] i.kind = "BGrid" -> BGrid_ctor(i.dims)
      [] i.kind = "BTorus" -> BTorus_ctor(i.dims)

SizedKinds == {"URing", "BRing", "UMesh", "BMesh"}

\* Constructor calls with sizes from lo..maxN and dimension lists of at most
\* maxDims entries from lo..maxDim
Inputs(lo, maxN, maxDim, maxDims) ==
    {[kind |-> k, N |-> 0, dims |-> <<>>] : k \in {"Graph", "OPG"}}
    \cup {[kind |-> k, N |-> n, dims |-> <<>>] : k \in SizedKinds, n \in lo..maxN}
    \cup {[kind |-> k, N |-> 0, dims |-> d] :
             k \in CompositeKinds, d \in SeqsUpTo(lo..maxDim, maxDims)}

(* Spec: life cycle of one object: construction, then add_vertex / add_edge *)
(* and reads of the views.                                                  *)

Init ==
    /\ inp \in Inputs(1, MaxN, MaxDim, MaxDims)
    /\ g = Construct(inp)
    /\ h = NoGraph
    /\ p = NoGraph
    /\ op = Call("ctor", 0, 0, 0)
    /\ nmut = 0

AddVertex(id) ==
    /\ nmut < MaxMut
    /\ g' = add_vertex(g, id)
    /\ op' = Call("add_vertex", id, 0, 0)
    /\ nmut' = nmut + 1
    /\ UNCHANGED <<h, p, inp>>

AddEdge(i, j) ==
    /\ nmut < MaxMut
    /\ g' = add_edge(g, i, j)
    /\ op' = Call("add_edge", i, j, 0)
    /\ nmut' = nmut + 1
    /\ UNCHANGED <<h, p, inp>>

ReadDiameter ==
    /\ op' = Call("diameter", 0, 0, DiameterProxy(g))
    /\ UNCHANGED <<g, h, p, inp, nmut>>

ReadNumVertices ==
    /\ op' = Call("num_vertices", 0, 0, num_vertices(g))
    /\ UNCHANGED <<g, h, p, inp, nmut>>

ReadNumEdges ==
    /\ op' = Call("num_edges", 0, 0, num_edges(g))
    /\ UNCHANGED <<g, h, p, inp, nmut>>

Next ==
    \/ \E id \in Ids : AddVertex(id)
    \/ \E i, j \in Ids : AddEdge(i, j)
    \/ ReadDiameter
    \/ ReadNumVertices
    \/ ReadNumEdges

Spec == Init /\ [][Next]_vars

(* SpecGraph: a plain Graph grown from empty by add_vertex and add_edge.   *)
(* The calls are bounded by the size of the graph, not counted.            *)

InitGraph ==
    /\ inp = [kind |-> "Graph", N |-> 0, dims |-> <<>>]
    /\ g = Graph_ctor
    /\ h = NoGraph
    /\ p = NoGraph
    /\ op = Call("ctor", 0, 0, 0)
    /\ nmut = 0

GraphAddVertex(id) ==
    /\ num_vertices(g) < MaxVertices
    /\ g' = add_vertex(g, id)
    /\ op' = Call("add_vertex", id, 0, 0)
    /\ UNCHANGED <<h, p, inp, nmut>>

GraphAddEdge(i, j) ==
    /\ num_edges(g) < MaxEdges
    /\ g' = add_edge(g, i, j)
    /\ op' = Call("add_edge", i, j, 0)
    /\ UNCHANGED <<h, p, inp, nmut>>

GraphReadDiameter ==
    /\ op' = Call("diameter", 0, 0, DiameterProxy(g))
    /\ UNCHANGED <<g, h, p, inp, nmut>>

NextGraph ==
    \/ \E id \in GraphIds : GraphAddVertex(id)
    \/ \E i, j \in GraphIds : GraphAddEdge(i, j)
    \/ GraphReadDiameter

SpecGraph == InitGraph /\ [][NextGraph]_vars

(* SpecProduct: two operands, the left one possibly mutated, then one      *)
(* gproduct call in either operand order.                                  *)

\* vertices <<1, 3>>, edge 1 -> 3: ids neither dense nor zero-based
SparseGraph ==
    Graph_add_edge(Graph_add_vertex(Graph_add_vertex(Graph_ctor, 1), 3), 1, 3)

\* vertices <<1, 1>>, edge 1 -> 1: a duplicated id
DuplicateGraph ==
    Graph_add_edge(Graph_add_vertex(Graph_add_vertex(Graph_ctor, 1), 1), 1, 1)

Operands ==
    {Construct(i) : i \in Inputs(1, PMaxN, 0, 0)} \cup {SparseGraph, DuplicateGraph}

InitProduct ==
    /\ inp = NoInput
    /\ g \in Operands
    /\ h \in Operands
    /\ p = NoGraph
    /\ op = Call("ctor", 0, 0, 0)
    /\ nmut = 0

ProductAddVertex(id) ==
    /\ p = NoGraph
    /\ nmut < PMaxMut
    /\ g' = add_vertex(g, id)
    /\ op' = Call("add_vertex", id, 0, 0)
    /\ nmut' = nmut + 1
    /\ UNCHANGED <<h, p, inp>>

ProductAddEdge(i, j) ==
    /\ p = NoGraph
    /\ nmut < PMaxMut
    /\ g' = add_edge(g, i, j)
    /\ op' = Call("add_edge", i, j, 0)
    /\ nmut' = nmut + 1
    /\ UNCHANGED <<h, p, inp>>

\* p = gproduct(g, h)
Product ==
    /\ p = NoGraph
    /\ p' = gproduct(g, h)
    /\ op' = Call("gproduct", 1, 2, 0)
    /\ UNCHANGED <<g, h, inp, nmut>>

\* p = gproduct(h, g)
ProductSwapped ==
    /\ p = NoGraph
    /\ p' = gproduct(h, g)
    /\ op' = Call("gproduct", 2, 1, 0)
    /\ UNCHANGED <<g, h, inp, nmut>>

\* g.num_dimensions on the left operand, before the product is taken
OperandReadNumDimensions ==
    /\ p = NoGraph
    /\ op' = Call("num_dimensions", 0, 0, NumDimensionsProxy(g))
    /\ UNCHANGED <<g, h, p, inp, nmut>>

\* p.num_dimensions on the product; op keeps the operand order of the call.
\* The proxy refers to p when the return of gproduct was elided; otherwise it
\* refers to the destroyed local of gproduct and the read is undefined: it
\* counts on the name it finds there, or throws (the caller may catch the
\* exception and read again), or the program ends with a segmentation fault
ProductReadNumDimensions ==
    /\ p # NoGraph
    /\ op.name # "SIGSEGV"
    /\ \/ op' = [op EXCEPT !.name = "num_dimensions",
                           !.ret = NumDimensionsProxy(p)]
       \/ \E name \in DestroyedNames(p) :
              op' = [op EXCEPT !.name = "num_dimensions",
                               !.ret = NumDimensionsProxy([p EXCEPT !.name = name])]
       \/ \E thrown \in DestroyedThrows :
              op' = [op EXCEPT !.name = thrown, !.ret = 0]
       \/ op' = [op EXCEPT !.name = "SIGSEGV", !.ret = 0]
    /\ UNCHANGED <<g, h, p, inp, nmut>>

NextProduct ==
    \/ \E id \in PIds : ProductAddVertex(id)
    \/ \E i, j \in PIds : ProductAddEdge(i, j)
    \/ Product
    \/ ProductSwapped
    \/ OperandReadNumDimensions
    \/ ProductReadNumDimensions

SpecProduct == InitProduct /\ [][NextProduct]_vars

\* The operands of the product held in p, in call order
LeftOperand == IF op.a = 1 THEN g ELSE h
RightOperand == IF op.a = 1 THEN h ELSE g

(* SpecPlain: a plain Graph, default-constructed or returned by gproduct,  *)
(* then add_vertex / add_edge on it and reads of its diameter. h and p     *)
(* hold the operands of the product, g the plain graph.                    *)

PlainIds == 0..PlainMaxId

PlainOperands == {Construct(i) : i \in Inputs(1, PlainMaxN, 0, 0)}

InitPlain ==
    /\ inp = NoInput
    /\ g = NoGraph
    /\ h \in PlainOperands
    /\ p \in PlainOperands
    /\ op = Call("none", 0, 0, 0)
    /\ nmut = 0

\* Graph g = gproduct(h, p)
PlainProduct ==
    /\ op.name = "none"
    /\ g' = gproduct(h, p)
    /\ op' = Call("gproduct", 1, 2, 0)
    /\ UNCHANGED <<h, p, inp, nmut>>

\* Graph g(static_cast<const BaseGraph &>(h)): p is not used
PlainConvert ==
    /\ op.name = "none"
    /\ g' = Graph_ctor_BaseGraph(h)
    /\ p' = NoGraph
    /\ op' = Call("Graph(const BaseGraph&)", 1, 0, 0)
    /\ UNCHANGED <<h, inp, nmut>>

\* Graph g: no operands
PlainDefault ==
    /\ op.name = "none"
    /\ g' = Graph_ctor
    /\ h' = NoGraph
    /\ p' = NoGraph
    /\ op' = Call("ctor", 0, 0, 0)
    /\ UNCHANGED <<inp, nmut>>

PlainAddVertex(id) ==
    /\ g # NoGraph
    /\ op.name # "SIGSEGV"
    /\ nmut < PlainMaxMut
    /\ g' = add_vertex(g, id)
    /\ op' = Call("add_vertex", id, 0, 0)
    /\ nmut' = nmut + 1
    /\ UNCHANGED <<h, p, inp>>

PlainAddEdge(i, j) ==
    /\ g # NoGraph
    /\ op.name # "SIGSEGV"
    /\ nmut < PlainMaxMut
    /\ g' = add_edge(g, i, j)
    /\ op' = Call("add_edge", i, j, 0)
    /\ nmut' = nmut + 1
    /\ UNCHANGED <<h, p, inp>>

\* int d = g.diameter. The proxy of a default-constructed or converted
\* graph refers to g. The proxy of a product refers to g when the return of
\* gproduct was elided; otherwise it refers to the destroyed local of
\* gproduct and the read is undefined: it returns what getDiameter_impl makes
\* of the storage it finds, or throws (the caller may catch the exception and
\* go on), or the program ends with a segmentation fault
PlainReadDiameter ==
    /\ g # NoGraph
    /\ op.name # "SIGSEGV"
    /\ \/ op' = Call("diameter", 0, 0, DiameterProxy(g))
       \/ /\ h # NoGraph
          /\ p # NoGraph
          /\ \/ \E ret \in DestroyedDiameters(gproduct(h, p)) :
                    op' = Call("diameter", 0, 0, ret)
             \/ \E thrown \in DestroyedThrows : op' = Call(thrown, 0, 0, 0)
             \/ op' = Call("SIGSEGV", 0, 0, 0)
    /\ UNCHANGED <<g, h, p, inp, nmut>>

NextPlain ==
    \/ PlainProduct
    \/ PlainConvert
    \/ PlainDefault
    \/ \E id \in PlainIds : PlainAddVertex(id)
    \/ \E i, j \in PlainIds : PlainAddEdge(i, j)
    \/ PlainReadDiameter

SpecPlain == InitPlain /\ [][NextPlain]_vars

(* SpecCache: a plain Graph grown from empty with diameter reads between   *)
(* the mutations. h is the graph as it was at the latest diameter read and *)
(* p the graph as it was at the read before that one.                      *)

CacheIds == 0..CacheMaxId

InitCache ==
    /\ inp = [kind |-> "Graph", N |-> 0, dims |-> <<>>]
    /\ g = Graph_ctor
    /\ h = NoGraph
    /\ p = NoGraph
    /\ op = Call("ctor", 0, 0, 0)
    /\ nmut = 0

CacheAddVertex(id) ==
    /\ num_vertices(g) < CacheMaxVertices
    /\ g' = add_vertex(g, id)
    /\ op' = Call("add_vertex", id, 0, 0)
    /\ UNCHANGED <<h, p, inp, nmut>>

CacheAddEdge(i, j) ==
    /\ num_edges(g) < CacheMaxEdges
    /\ g' = add_edge(g, i, j)
    /\ op' = Call("add_edge", i, j, 0)
    /\ UNCHANGED <<h, p, inp, nmut>>

\* A read that answers with the value of the latest earlier read, if any
CacheReadDiameter_Cached ==
    /\ op' = Call("diameter", 0, 0,
                  IF h # NoGraph THEN DiameterProxy(h) ELSE DiameterProxy(g))
    /\ h' = g
    /\ p' = h
    /\ UNCHANGED <<g, inp, nmut>>

\* int d = g.diameter: DiameterProxy -> Graph::getDiameter -> getDiameter_impl
CacheReadDiameter ==
    /\ op' = Call("diameter", 0, 0, DiameterProxy(g))
    /\ h' = g
    /\ p' = h
    /\ UNCHANGED <<g, inp, nmut>>

NextCache ==
    \/ \E id \in CacheIds : CacheAddVertex(id)
    \/ \E i, j \in CacheIds : CacheAddEdge(i, j)
    \/ CacheReadDiameter

SpecCache == InitCache /\ [][NextCache]_vars

(* SpecCodec: encode_vertex_pair on one (g1_id, g2_id, g2_size), then      *)
(* decode_vertex_pair on the encoded id. inp holds the three arguments.    *)

\* Small ids and the ids at both sides of the largest one that can still be
\* encoded for some small size
CodecFirstIds ==
    (0..CodecMaxA)
        \cup {Int32Max \div n : n \in 1..CodecMaxN}
        \cup {(Int32Max \div n) + 1 : n \in 2..CodecMaxN}

CodecSizes == (1..CodecMaxN) \cup {Int32Max}

CodecSecondIds == (0..CodecMaxN) \cup {Int32Max - 1}

InitCodec ==
    /\ inp \in [kind : {"encode_vertex_pair"}, g1_id : CodecFirstIds,
                g2_id : CodecSecondIds, g2_size : CodecSizes]
    /\ g = NoGraph
    /\ h = NoGraph
    /\ p = NoGraph
    /\ op = Call("none", 0, 0, 0)
    /\ nmut = 0

\* int32_t id = encode_vertex_pair(g1_id, g2_id, g2_size). Signed overflow is
\* undefined: a build without overflow checks returns the result reduced
\* modulo 2^32, a build that traps on overflow (-ftrapv) aborts the program
CodecEncode ==
    /\ op.name = "none"
    /\ IF FitsInt32(inp.g1_id, inp.g2_id, inp.g2_size)
       THEN op' = Call("encode_vertex_pair", inp.g1_id, inp.g2_id,
                       encode_vertex_pair(inp.g1_id, inp.g2_id, inp.g2_size))
       ELSE \/ op' = Call("encode_vertex_pair", inp.g1_id, inp.g2_id,
                          encode_vertex_pair_Wrapped(inp.g1_id, inp.g2_id,
                                                     inp.g2_size))
            \/ op' = Call("abort", inp.g1_id, inp.g2_id, 0)
    /\ UNCHANGED <<g, h, p, inp, nmut>>

\* auto [a, b] = decode_vertex_pair(id, g2_size) on the id just encoded
CodecDecode ==
    /\ op.name = "encode_vertex_pair"
    /\ op' = Call("decode_vertex_pair", op.ret, inp.g2_size,
                  decode_vertex_pair(op.ret, inp.g2_size))
    /\ UNCHANGED <<g, h, p, inp, nmut>>

NextCodec ==
    \/ CodecEncode
    \/ CodecDecode

SpecCodec == InitCodec /\ [][NextCodec]_vars

(* SpecFrame: one instance g, its mutations, reads of each of its views    *)
(* and products that take it as an operand. h is the other operand and p   *)
(* the graph returned by the latest call when that call was a product.     *)

\* Ids passed to the mutations: 0 is carried by every constructed graph, 1
\* by those with two vertices or more
FrameIds == 0..1

FrameOthers == {OPG_ctor, UMesh_ctor(2)}

\* Arguments of dimensions[index]: the positions of a list of two entries
\* and the first position after it
FrameIndexes == 0..2

InitFrame ==
    /\ inp \in Inputs(1, FrameMaxN, FrameMaxDim, 2)
    /\ g = Construct(inp)
    /\ h \in FrameOthers
    /\ p = NoGraph
    /\ op = Call("ctor", 0, 0, 0)
    /\ nmut = 0

FrameAddVertex(id) ==
    /\ nmut < FrameMaxMut
    /\ g' = add_vertex(g, id)
    /\ op' = Call("add_vertex", id, 0, 0)
    /\ nmut' = nmut + 1
    /\ p' = NoGraph
    /\ UNCHANGED <<h, inp>>

FrameAddEdge(i, j) ==
    /\ nmut < FrameMaxMut
    /\ g' = add_edge(g, i, j)
    /\ op' = Call("add_edge", i, j, 0)
    /\ nmut' = nmut + 1
    /\ p' = NoGraph
    /\ UNCHANGED <<h, inp>>

\* The read of one view of g: every proxy holds a const reference
FrameRead(view, ret) ==
    /\ op' = Call(view, 0, 0, ret)
    /\ p' = NoGraph
    /\ UNCHANGED <<g, h, inp, nmut>>

FrameReadNumVertices == FrameRead("num_vertices", num_vertices(g))

FrameReadNumEdges == FrameRead("num_edges", num_edges(g))

FrameReadVertices == FrameRead("vertices", VerticesProxy(g))

FrameReadEdges == FrameRead("edges", EdgesProxy(g))

FrameReadDiameter == FrameRead("diameter", DiameterProxy(g))

FrameReadNumDimensions == FrameRead("num_dimensions", NumDimensionsProxy(g))

\* size_t d = g.dimension: a member of URing, BRing, UMesh, BMesh and OPG
FrameReadDimension ==
    /\ g.kind \in BasicKinds
    /\ FrameRead("dimension", DimensionProxy(g))

\* g.dimensions.get(): a member of BGrid and BTorus
FrameReadDimensions ==
    /\ g.kind \in CompositeKinds
    /\ FrameRead("dimensions", MultiDimensionProxy_get(g))

\* size_t d = g.dimensions[index]
FrameReadDimensionAt(index) ==
    /\ g.kind \in CompositeKinds
    /\ op' = Call("dimensions[]", index, 0, MultiDimensionProxy_index(g, index))
    /\ p' = NoGraph
    /\ UNCHANGED <<g, h, inp, nmut>>

\* size_t n = g.dimensions.size()
FrameReadDimensionsSize ==
    /\ g.kind \in CompositeKinds
    /\ FrameRead("dimensions.size", MultiDimensionProxy_size(g))

\* static_cast<Graph &>(g) = static_cast<const BaseGraph &>(h): the implicit
\* copy assignment of the classes is deleted (reference members), the
\* assignment from a BaseGraph is the one there is
FrameAssign ==
    /\ g' = Graph_operator_assign(g, h)
    /\ op' = Call("operator=", 1, 2, 0)
    /\ p' = NoGraph
    /\ UNCHANGED <<h, inp, nmut>>

\* Graph p(static_cast<const BaseGraph &>(g))
FrameConvert ==
    /\ p' = Graph_ctor_BaseGraph(g)
    /\ op' = Call("Graph(const BaseGraph&)", 1, 0, 0)
    /\ UNCHANGED <<g, h, inp, nmut>>

\* int d = p.diameter on the graph just converted: a proxy of its own, and
\* Graph::getDiameter
FrameConvertReadDiameter ==
    /\ op.name = "Graph(const BaseGraph&)"
    /\ op' = Call("convert.diameter", 0, 0, DiameterProxy(p))
    /\ UNCHANGED <<g, h, p, inp, nmut>>

\* Graph p = gproduct(g, h)
FrameProductLeft ==
    /\ p' = gproduct(g, h)
    /\ op' = Call("gproduct", 1, 2, 0)
    /\ UNCHANGED <<g, h, inp, nmut>>

\* Graph p = gproduct(h, g)
FrameProductRight ==
    /\ p' = gproduct(h, g)
    /\ op' = Call("gproduct", 2, 1, 0)
    /\ UNCHANGED <<g, h, inp, nmut>>

\* Graph p = g * h
FrameOperatorStar ==
    /\ p' = operator_star(g, h)
    /\ op' = Call("operator*", 1, 2, 0)
    /\ UNCHANGED <<g, h, inp, nmut>>

\* p.add_vertex(id) on the product just returned
FrameProductAddVertex(id) ==
    /\ op.name \in {"gproduct", "operator*"}
    /\ p' = add_vertex(p, id)
    /\ op' = Call("product.add_vertex", id, 0, 0)
    /\ UNCHANGED <<g, h, inp, nmut>>

NextFrame ==
    \/ \E id \in FrameIds : FrameAddVertex(id)
    \/ \E i, j \in FrameIds : FrameAddEdge(i, j)
    \/ FrameReadNumVertices
    \/ FrameReadNumEdges
    \/ FrameReadVertices
    \/ FrameReadEdges
    \/ FrameReadDiameter
    \/ FrameReadNumDimensions
    \/ FrameReadDimension
    \/ FrameReadDimensions
    \/ \E index \in FrameIndexes : FrameReadDimensionAt(index)
    \/ FrameReadDimensionsSize
    \/ FrameAssign
    \/ FrameConvert
    \/ FrameConvertReadDiameter
    \/ FrameProductLeft
    \/ FrameProductRight
    \/ FrameOperatorStar
    \/ \E id \in FrameIds : FrameProductAddVertex(id)

SpecFrame == InitFrame /\ [][NextFrame]_vars

(* SpecCopy: an instance g and a copy p made of it by an implicit copy     *)
(* constructor: Graph p = g, or K p = g for the class K of g. Both are     *)
(* mutated; the views read are those of the copy.                          *)

CopyIds == 0..1

CopyViewNames ==
    {"num_vertices", "num_edges", "vertices", "edges", "diameter",
     "num_dimensions"}

\* What the view of the given name returns for the graph its proxy refers to
CopyView(gr, view) ==
    CASE view = "num_vertices" -> num_vertices(gr)
      [] view = "num_edges" -> num_edges(gr)
      [] view = "vertices" -> VerticesProxy(gr)
      [] view = "edges" -> EdgesProxy(gr)
      [] view = "diameter" -> DiameterProxy(gr)
      [] view = "num_dimensions" -> NumDimensionsProxy(gr)

InitCopy ==
    /\ inp \in Inputs(1, CopyMaxN, CopyMaxDim, 2)
    /\ g = Construct(inp)
    /\ h = NoGraph
    /\ p = NoGraph
    /\ op = Call("ctor", 0, 0, 0)
    /\ nmut = 0

\* Graph p = g
CopyConstruct ==
    /\ p = NoGraph
    /\ p' = Graph_ctor_copy(g)
    /\ op' = Call("Graph(const Graph&)", 0, 0, 0)
    /\ UNCHANGED <<g, h, inp, nmut>>

\* K p = g, K the specialized class of g (URing p = g, BGrid p = g, ...)
CopyConstructClass ==
    /\ p = NoGraph
    /\ g.kind \in SpecializedKinds
    /\ p' = Class_ctor_copy(g)
    /\ op' = Call("K(const K&)", 0, 0, 0)
    /\ UNCHANGED <<g, h, inp, nmut>>

\* K p = std::move(g), K = BGrid or BTorus: the implicitly generated K(K &&)
\* builds p as the copy constructor does (the proxies are copied and refer to
\* g) except that dimensions_ is moved, which leaves that of g empty. For
\* the other classes the move constructor does what the copy constructor does
CopyMoveClass ==
    /\ p = NoGraph
    /\ g.kind \in CompositeKinds
    /\ p' = Class_ctor_copy(g)
    /\ g' = [g EXCEPT !.dimensions_ = <<>>]
    /\ op' = Call("K(K&&)", 0, 0, 0)
    /\ UNCHANGED <<h, inp, nmut>>

\* p.add_vertex(id): the add_vertex of the class of p (Graph::add_vertex, or
\* the override of K, which renames p) on the copy's own vertices
CopyAddVertex(id) ==
    /\ p # NoGraph
    /\ nmut < CopyMaxMut
    /\ p' = add_vertex(p, id)
    /\ op' = Call("copy.add_vertex", id, 0, 0)
    /\ nmut' = nmut + 1
    /\ UNCHANGED <<g, h, inp>>

\* p.add_edge(i, j)
CopyAddEdge(i, j) ==
    /\ p # NoGraph
    /\ nmut < CopyMaxMut
    /\ p' = add_edge(p, i, j)
    /\ op' = Call("copy.add_edge", i, j, 0)
    /\ nmut' = nmut + 1
    /\ UNCHANGED <<g, h, inp>>

\* g.add_vertex(id) on the source, before or after the copy is made
CopySourceAddVertex(id) ==
    /\ nmut < CopyMaxMut
    /\ g' = add_vertex(g, id)
    /\ op' = Call("source.add_vertex", id, 0, 0)
    /\ nmut' = nmut + 1
    /\ UNCHANGED <<h, p, inp>>

\* g.add_edge(i, j) on the source
CopySourceAddEdge(i, j) ==
    /\ nmut < CopyMaxMut
    /\ g' = add_edge(g, i, j)
    /\ op' = Call("source.add_edge", i, j, 0)
    /\ nmut' = nmut + 1
    /\ UNCHANGED <<h, p, inp>>

\* A read of one view of the copy: the proxy copied from g refers to g, and
\* the diameter proxy calls the getDiameter of the class of g
CopyRead(view) ==
    /\ p # NoGraph
    /\ op' = Call("copy." \o view, 0, 0, CopyView(g, view))
    /\ UNCHANGED <<g, h, p, inp, nmut>>

\* size_t d = p.dimension on a copy of class URing, BRing, UMesh, BMesh or
\* OPG: the proxy copied from g casts g and returns its dimension_
CopyReadDimension ==
    /\ p.kind \in BasicKinds
    /\ op' = Call("copy.dimension", 0, 0, DimensionProxy(g))
    /\ UNCHANGED <<g, h, p, inp, nmut>>

\* p.dimensions.get() on a copy of class BGrid or BTorus: ptr_ points to g
CopyReadDimensions ==
    /\ p.kind \in CompositeKinds
    /\ op' = Call("copy.dimensions", 0, 0, MultiDimensionProxy_get(g))
    /\ UNCHANGED <<g, h, p, inp, nmut>>

NextCopy ==
    \/ CopyConstruct
    \/ CopyConstructClass
    \/ CopyMoveClass
    \/ CopyReadDimension
    \/ CopyReadDimensions
    \/ \E id \in CopyIds : CopyAddVertex(id)
    \/ \E i, j \in CopyIds : CopyAddEdge(i, j)
    \/ \E id \in CopyIds : CopySourceAddVertex(id)
    \/ \E i, j \in CopyIds : CopySourceAddEdge(i, j)
    \/ \E view \in CopyViewNames : CopyRead(view)

SpecCopy == InitCopy /\ [][NextCopy]_vars

(* SpecGen: one constructor call on inputs that include the invalid ones,  *)
(* then reads of the new object.                                           *)

InitGen ==
    /\ inp \in Inputs(0, GenMaxN, GenMaxDim, GenMaxDims)
    /\ g = NoGraph
    /\ h = NoGraph
    /\ p = NoGraph
    /\ op = Call("none", 0, 0, 0)
    /\ nmut = 0

GenConstruct ==
    /\ op.name = "none"
    /\ g' = Construct(inp)
    /\ op' = Call("ctor", 0, 0, 0)
    /\ UNCHANGED <<h, p, inp, nmut>>

GenReadDiameter ==
    /\ g.kind \notin {"none", "invalid_argument"}
    /\ op' = Call("diameter", 0, 0, DiameterProxy(g))
    /\ UNCHANGED <<g, h, p, inp, nmut>>

\* The private edge formula of a composite, applied to its own dimensions_
GenCalculateEdges ==
    /\ g.kind \in CompositeKinds
    /\ op' = IF g.kind = "BGrid"
             THEN Call("calculateGridEdges", 0, 0, calculateGridEdges(g.dimensions_))
             ELSE Call("calculateTorusEdges", 0, 0, calculateTorusEdges(g.dimensions_))
    /\ UNCHANGED <<g, h, p, inp, nmut>>

NextGen ==
    \/ GenConstruct
    \/ GenReadDiameter
    \/ GenCalculateEdges

SpecGen == InitGen /\ [][NextGen]_vars

----------------------------------------------------------------------------
(* Properties *)

Range(s) == {s[k] : k \in 1..Len(s)}

\* Number of occurrences of x in the sequence s
Count(s, x) == Cardinality({k \in 1..Len(s) : s[k] = x})

\* The sequences s and t hold the same elements with the same multiplicities
SameBag(s, t) == \A x \in Range(s) \cup Range(t) : Count(s, x) = Count(t, x)

Specialized == g.kind \in SpecializedKinds

\* C1: a specialized topology that is still Specialized (its name is not
\* "Generic") has the display name "Generic" after one add_vertex or add_edge
\* call, whatever the arguments, also when add_edge names ids that no vertex
\* carries.
C1_MutationMakesGeneric ==
    [][(Specialized /\ g.name # NameGeneric /\ nmut' = nmut + 1)
          => g'.name = NameGeneric]_vars

\* C1 witness: a specialized topology after exactly one add_edge call whose
\* first id is carried by no vertex, named "Generic"
C1_Witness ==
    /\ Specialized
    /\ nmut = 1
    /\ op.name = "add_edge"
    /\ op.a \notin Range(g.vs)
    /\ g.name = NameGeneric

\* C2 as stated: Generic is terminal: once the display name of a generator's
\* instance is "Generic", every further operation on it leaves it "Generic";
\* no operation restores a specialized name.
C2_Original ==
    [][(Specialized /\ g.name = NameGeneric) => g'.name = NameGeneric]_vars

\* C3 as stated: after one add_vertex(id) on a specialized topology the id is
\* in the vertex list, and after one add_edge(i, j) with any arguments the
\* pair (i, j) is in the edge list.
C3_Original ==
    (Specialized /\ nmut = 1) =>
        /\ op.name = "add_vertex" => op.a \in Range(VerticesProxy(g))
        /\ op.name = "add_edge" => <<op.a, op.b>> \in Range(EdgesProxy(g))

\* C3 amended: after one add_vertex(id) on a specialized topology the id is
\* in the vertex list; after one add_edge(i, j) the pair (i, j) is in the edge
\* list when both ids are carried by vertices, and no edge has been added
\* when one of them is carried by none.
C3_MutationLaw ==
    (Specialized /\ nmut = 1) =>
        /\ op.name = "add_vertex" => op.a \in Range(VerticesProxy(g))
        /\ (op.name = "add_edge" /\ op.a \in Range(g.vs) /\ op.b \in Range(g.vs))
              => <<op.a, op.b>> \in Range(EdgesProxy(g))
        /\ (op.name = "add_edge" /\ ~(op.a \in Range(g.vs) /\ op.b \in Range(g.vs)))
              => num_edges(g) = num_edges(Construct(inp))

\* C3 witness: a specialized topology after one add_edge between two of its
\* vertices, holding that edge
C3_Witness ==
    /\ Specialized
    /\ nmut = 1
    /\ op.name = "add_edge"
    /\ op.a \in Range(g.vs)
    /\ op.b \in Range(g.vs)
    /\ <<op.a, op.b>> \in Range(EdgesProxy(g))
    /\ num_edges(g) = num_edges(Construct(inp)) + 1

\* C4 as stated: once a specialized topology has been mutated, reading its
\* diameter returns the default BFS result for the current vertices and edges.
C4_Original ==
    (Specialized /\ nmut >= 1 /\ op.name = "diameter")
        => op.ret = getDiameter_impl(g)

\* C5 as stated: for an unmodified basic topology the closed-form value of
\* the diameter view equals the default BFS diameter of its vertices and edges.
C5_Original ==
    (g.kind \in BasicKinds /\ nmut = 0 /\ op.name = "diameter")
        => op.ret = getDiameter_impl(g)

\* Vertices reached from the vertices of S along one out-edge
Successors(gr, S) == UNION {Range(gr.out[s]) : s \in S}

\* Vertices reached from u along at most k edges
RECURSIVE ReachWithin(_, _, _)
ReachWithin(gr, u, k) ==
    IF k = 0 THEN {u}
    ELSE LET r == ReachWithin(gr, u, k - 1) IN r \cup Successors(gr, r)

\* Length of a shortest directed path from u to v, -1 when there is none
Distance(gr, u, v) ==
    LET ks == {k \in 0..(Len(gr.vs) - 1) : v \in ReachWithin(gr, u, k)}
    IN  IF ks = {} THEN -1 ELSE CHOOSE k \in ks : \A m \in ks : k <= m

\* Number of edges of a longest shortest path leaving u, by growing the set
\* of reached vertices one layer at a time; -1 when some vertex is never
\* reached
RECURSIVE Eccentricity(_, _, _, _)
Eccentricity(gr, seen, frontier, d) ==
    LET next == Successors(gr, frontier) \ seen
    IN  IF next = {}
        THEN IF seen = DOMAIN gr.vs THEN d ELSE -1
        ELSE Eccentricity(gr, seen \cup next, next, d + 1)

\* The diameter of the graph as the text defines it: -1 without vertices or
\* when some ordered pair is not connected, else the largest eccentricity
PathDiameter(gr) ==
    LET ecc == {Eccentricity(gr, {u}, {u}, 0) : u \in DOMAIN gr.vs}
    IN  IF ecc = {} \/ -1 \in ecc THEN -1
        ELSE CHOOSE e \in ecc : \A f \in ecc : f <= e

\* C6: the diameter view of a plain Graph is -1 with no vertex, 0 with one
\* vertex, -1 when some vertex cannot reach some other vertex along directed
\* edges, and otherwise the largest shortest-path length over all ordered
\* pairs of vertices, a value >= 0.
C6_PlainDiameter ==
    (g.kind = "Graph" /\ op.name = "diameter") =>
        LET V == 1..Len(g.vs)
            D == {Distance(g, u, v) : u \in V, v \in V}
        IN  /\ Len(g.vs) = 0 => op.ret = -1
            /\ Len(g.vs) = 1 => op.ret = 0
            /\ (Len(g.vs) >= 2 /\ -1 \in D) => op.ret = -1
            /\ (Len(g.vs) >= 2 /\ -1 \notin D) =>
                  /\ op.ret >= 0
                  /\ op.ret \in D
                  /\ \A d \in D : d <= op.ret

\* C6 witness: a strongly connected plain graph of three vertices whose
\* diameter was read as 2
C6_Witness ==
    /\ g.kind = "Graph"
    /\ Len(g.vs) = 3
    /\ op.name = "diameter"
    /\ op.ret = 2

\* A sequence that holds some element twice
HasDuplicates(s) == Cardinality(Range(s)) < Len(s)

\* C7: scalar product law: gproduct(G1, G2) has |V(G1)|*|V(G2)| vertices and
\* |V(G1)|*|E(G2)| + |E(G1)|*|V(G2)| edges, for all operands, also with
\* sparse, non-zero-based or duplicated ids and for empty graphs.
C7_ScalarProductLaw ==
    p # NoGraph =>
        /\ num_vertices(p) = num_vertices(LeftOperand) * num_vertices(RightOperand)
        /\ num_edges(p) = num_vertices(LeftOperand) * num_edges(RightOperand)
                          + num_edges(LeftOperand) * num_vertices(RightOperand)

\* C7 witness: a product with edges from both factors, one factor holding a
\* duplicated id and the other ids that are not 0..n-1
C7_Witness ==
    /\ p # NoGraph
    /\ HasDuplicates(g.vs)
    /\ h = SparseGraph
    /\ num_edges(g) > 0
    /\ num_edges(p) = num_vertices(LeftOperand) * num_edges(RightOperand)
                      + num_edges(LeftOperand) * num_vertices(RightOperand)

\* C8: when the vertex lists of G1 and G2 are 0..n1-1 and 0..n2-1, the vertex
\* list of gproduct(G1, G2) is 0..n1*n2-1 in order (pair (a, b) at id
\* a*n2+b), and its edges are, with their multiplicities, a*n2+b -> a'*n2+b
\* for every edge a -> a' of G1 and every b, and a*n2+b -> a*n2+b' for every
\* a and every edge b -> b' of G2, and no others.
C8_DenseProduct ==
    (p # NoGraph /\ LeftOperand.vs = VertexIds(Len(LeftOperand.vs))
                 /\ RightOperand.vs = VertexIds(Len(RightOperand.vs))) =>
        LET n1 == Len(LeftOperand.vs)
            n2 == Len(RightOperand.vs)
            E1 == EdgesProxy(LeftOperand)
            E2 == EdgesProxy(RightOperand)
            E == EdgesProxy(p)
            V == 0..(n1 * n2 - 1)
        IN  /\ VerticesProxy(p) = VertexIds(n1 * n2)
            /\ Range(E) \subseteq V \X V
            /\ \A x \in V, y \in V :
                  Count(E, <<x, y>>) =
                      (IF x % n2 = y % n2
                       THEN Count(E1, <<x \div n2, y \div n2>>) ELSE 0)
                      + (IF x \div n2 = y \div n2
                         THEN Count(E2, <<x % n2, y % n2>>) ELSE 0)

\* C8 witness: a product of two graphs with dense ids, at least two vertices
\* and an edge each, the left one having been mutated
C8_Witness ==
    /\ p # NoGraph
    /\ nmut >= 1
    /\ Len(g.vs) >= 2 /\ g.vs = VertexIds(Len(g.vs))
    /\ Len(h.vs) >= 2 /\ h.vs = VertexIds(Len(h.vs))
    /\ num_edges(g) > 0 /\ num_edges(h) > 0
    /\ VerticesProxy(p) = VertexIds(Len(g.vs) * Len(h.vs))

\* C9: identity law: gproduct(G, OPG()) and gproduct(OPG(), G) have the
\* vertex count, the edge count, the vertex id list and the multiset of
\* (source id, target id) pairs of G.
C9_IdentityLaw ==
    (p # NoGraph /\ h = OPG_ctor) =>
        /\ num_vertices(p) = num_vertices(g)
        /\ num_edges(p) = num_edges(g)
        /\ VerticesProxy(p) = VerticesProxy(g)
        /\ SameBag(EdgesProxy(p), EdgesProxy(g))

\* C9 witness: gproduct(OPG(), G) for a mutated G with edges whose ids are
\* not 0..n-1 in order
C9_Witness ==
    /\ p # NoGraph
    /\ h = OPG_ctor
    /\ op.a = 2
    /\ nmut >= 1
    /\ num_edges(g) > 0
    /\ g.vs # VertexIds(Len(g.vs))
    /\ VerticesProxy(p) = VerticesProxy(g)

\* The basic topology a composite is made of: BMesh for BGrid, BRing for BTorus
Base(kind, d) == IF kind = "BGrid" THEN BMesh_ctor(d) ELSE BRing_ctor(d)

\* gproduct(...gproduct(base(d1), base(d2))..., base(dk))
RECURSIVE LeftFold(_, _, _)
LeftFold(kind, dims, k) ==
    IF k = 1 THEN Base(kind, dims[1])
    ELSE gproduct(LeftFold(kind, dims, k - 1), Base(kind, dims[k]))

\* The ids of the targets of the edges that leave the k-th vertex
TargetsOf(gr, k) == [m \in 1..Len(gr.out[k]) |-> gr.vs[gr.out[k][m]]]

\* Two graphs with the same vertex list hold the same multiset of edges:
\* vertex by vertex, the same multiset of target ids
SameEdgeBags(g1, g2) ==
    /\ Len(g1.out) = Len(g2.out)
    /\ \A k \in 1..Len(g1.out) : SameBag(TargetsOf(g1, k), TargetsOf(g2, k))

\* C10: a BGrid (BTorus) built from a valid dimension list has the vertex id
\* list and the multiset of edges of the left-associative fold of gproduct
\* over BMesh (BRing) of its canonical sequence [d1..dk]; for k = 1 this is
\* base(d1), and for the canonical sequence [1] it is the single vertex 0
\* without edges.
C10_CompositeIsLeftFold ==
    (op.name # "none" /\ g.kind \in CompositeKinds) =>
        LET dims == g.dimensions_
            fold == LeftFold(g.kind, dims, Len(dims))
        IN  /\ VerticesProxy(g) = VerticesProxy(fold)
            /\ SameEdgeBags(g, fold)
            /\ dims = <<1>> => (VerticesProxy(g) = <<0>> /\ EdgesProxy(g) = <<>>)

\* C10 witness: a BGrid of three dimensions that are not all equal
C10_Witness ==
    /\ op.name = "ctor"
    /\ g.kind = "BGrid"
    /\ Len(g.dimensions_) = 3
    /\ g.dimensions_[1] > g.dimensions_[3]
    /\ num_vertices(g) = g.dimensions_[1] * g.dimensions_[2] * g.dimensions_[3]

----------------------------------------------------------------------------
(* Composite topologies: diameter and size *)

\* Sum of the entries of a sequence of numbers
RECURSIVE SeqSum(_)
SeqSum(s) == IF s = <<>> THEN 0 ELSE s[1] + SeqSum(Tail(s))

\* Product of the entries of a sequence of numbers
RECURSIVE SeqProduct(_)
SeqProduct(s) == IF s = <<>> THEN 1 ELSE s[1] * SeqProduct(Tail(s))

\* A composite that the constructor has returned and nothing has mutated
UnmodifiedComposite == g.kind \in CompositeKinds /\ nmut = 0

\* C11: the diameter view of an unmodified BGrid returns the sum of (di - 1)
\* over its canonical dimensions and that of an unmodified BTorus the sum of
\* floor(di / 2) (0 for the sequence [1]); each value is the BFS diameter of
\* the graph the constructor built.
C11_CompositeDiameter ==
    (UnmodifiedComposite /\ op.name = "diameter") =>
        LET d == g.dimensions_
            expected == IF g.kind = "BGrid"
                        THEN SeqSum([k \in 1..Len(d) |-> d[k] - 1])
                        ELSE SeqSum([k \in 1..Len(d) |-> d[k] \div 2])
        IN  /\ op.ret = expected
            /\ op.ret = PathDiameter(g)

\* C11 witness: the diameter of a three-dimensional torus with an odd and an
\* even dimension has been read
C11_Witness ==
    /\ UnmodifiedComposite
    /\ g.kind = "BTorus"
    /\ op.name = "diameter"
    /\ Len(g.dimensions_) = 3
    /\ g.dimensions_[1] = 3
    /\ g.dimensions_[3] = 2
    /\ op.ret = 3

\* C12: an unmodified BGrid has as many vertices as the product of its
\* canonical dimensions, and calculateGridEdges applied to them is the number
\* of edges of the graph the constructor built, also for the sequence [1].
C12_GridSize ==
    (UnmodifiedComposite /\ g.kind = "BGrid" /\ op.name = "calculateGridEdges") =>
        /\ num_vertices(g) = SeqProduct(g.dimensions_)
        /\ op.ret = num_edges(g)

\* C12 witness: the formula has been applied to a three-dimensional grid with
\* unequal dimensions and gave the number of its edges
C12_Witness ==
    /\ UnmodifiedComposite
    /\ g.kind = "BGrid"
    /\ op.name = "calculateGridEdges"
    /\ Len(g.dimensions_) = 3
    /\ g.dimensions_[1] > g.dimensions_[3]
    /\ op.ret = num_edges(g)
    /\ op.ret > 0

\* C13 as stated: an unmodified BTorus has as many vertices as the product of
\* its canonical dimensions, and calculateTorusEdges applied to them is the
\* number of edges of the graph the constructor built, also for the sequence
\* [1].
C13_Original ==
    (UnmodifiedComposite /\ g.kind = "BTorus" /\ op.name = "calculateTorusEdges") =>
        /\ num_vertices(g) = SeqProduct(g.dimensions_)
        /\ op.ret = num_edges(g)

----------------------------------------------------------------------------
(* Canonicalization of dimension lists *)

GreaterThanOne(x) == x > 1

\* The entries greater than 1 of a dimension list, in input order
NonOnes(dims) == SelectSeq(dims, GreaterThanOne)

\* A composite just returned by its constructor
ConstructedComposite == g.kind \in CompositeKinds /\ op.name = "ctor"

\* C14: for an input list of positive integers the dimensions view of BGrid
\* and BTorus holds the entries greater than 1, each with its multiplicity,
\* in descending order, or [1] when there is none; every input with the same
\* multiset of entries greater than 1 is stored as the same sequence.
C14_Canonical ==
    ConstructedComposite =>
        LET d == MultiDimensionProxy_get(g)
            kept == NonOnes(inp.dims)
        IN  /\ IF kept = <<>> THEN d = <<1>>
               ELSE /\ SameBag(d, kept)
                    /\ \A k \in 1..(Len(d) - 1) : d[k] >= d[k + 1]
            /\ \A other \in SeqsUpTo(1..GenMaxDim, GenMaxDims) :
                   SameBag(NonOnes(other), kept) =>
                       Canonicalize(other) = d

\* C14 witness: a composite built from an unsorted list with an entry 1
C14_Witness ==
    /\ ConstructedComposite
    /\ inp.dims = <<2, 1, 3>>
    /\ MultiDimensionProxy_get(g) = <<3, 2>>

\* C15: canonicalization is idempotent: a BGrid or BTorus constructed from the
\* dimensions a composite reports (the sentinel [1] included) reports the
\* same dimensions and has the same name, vertices and edges.
C15_Idempotent ==
    ConstructedComposite =>
        LET d == MultiDimensionProxy_get(g)
            again == Construct([inp EXCEPT !.dims = d])
        IN  /\ MultiDimensionProxy_get(again) = d
            /\ again.name = g.name
            /\ VerticesProxy(again) = VerticesProxy(g)
            /\ EdgesProxy(again) = EdgesProxy(g)

\* C15 witness: a composite built from a list that was not canonical, whose
\* reported dimensions give the same dimensions when canonicalized again
C15_Witness ==
    /\ ConstructedComposite
    /\ inp.dims = <<2, 3, 1>>
    /\ MultiDimensionProxy_get(g) = <<3, 2>>
    /\ Canonicalize(MultiDimensionProxy_get(g)) = <<3, 2>>

----------------------------------------------------------------------------
(* add_edge on missing endpoints *)

\* The step is a call add_edge(i, j) on g where no vertex carries i or none
\* carries j
AddEdgeMissingStep ==
    /\ nmut' = nmut + 1
    /\ op'.name = "add_edge"
    /\ (op'.a \notin Range(g.vs) \/ op'.b \notin Range(g.vs))

\* The step is a call add_vertex of an id that the add_edge call before it
\* did not find
AddVertexAfterMissingStep ==
    /\ op.name = "add_edge"
    /\ (op.a \notin Range(g.vs) \/ op.b \notin Range(g.vs))
    /\ nmut' = nmut + 1
    /\ op'.name = "add_vertex"
    /\ op'.a \in {op.a, op.b}

\* C16 as stated: on any graph, plain or specialized, add_edge(i, j) with a
\* missing endpoint leaves the vertex list, the edge list and the display name
\* unchanged, and a later add_vertex of the missing id does not create the
\* edge.
C16_Original ==
    [][/\ AddEdgeMissingStep =>
              /\ VerticesProxy(g') = VerticesProxy(g)
              /\ EdgesProxy(g') = EdgesProxy(g)
              /\ g'.name = g.name
       /\ AddVertexAfterMissingStep => EdgesProxy(g') = EdgesProxy(g)]_vars

\* C16 amended: add_edge(i, j) with a missing endpoint leaves the vertex list
\* and the edge list unchanged on any graph and a later add_vertex of the
\* missing id does not create the edge; the display name is unchanged on a
\* plain or already generic graph, and becomes "Generic" on a specialized
\* topology that still carried its label.
C16_MissingEndpoint ==
    [][/\ AddEdgeMissingStep =>
              /\ VerticesProxy(g') = VerticesProxy(g)
              /\ EdgesProxy(g') = EdgesProxy(g)
              /\ g'.name = IF Specialized THEN NameGeneric ELSE g.name
       /\ AddVertexAfterMissingStep => EdgesProxy(g') = EdgesProxy(g)]_vars

\* C16 witness: add_vertex of the id that the add_edge call before it missed
\* has run on a specialized topology, and the edges are the constructor's
C16_Witness ==
    /\ Specialized
    /\ nmut = 2
    /\ op.name = "add_vertex"
    /\ op.a \notin Range(VerticesProxy(Construct(inp)))
    /\ VerticesProxy(g) = Append(VerticesProxy(Construct(inp)), op.a)
    /\ EdgesProxy(g) = EdgesProxy(Construct(inp))
    /\ g.name = NameGeneric

----------------------------------------------------------------------------
(* Basic generators: diameter values, edge patterns, construction errors *)

\* A basic topology that the constructor has returned and nothing has mutated
UnmodifiedBasic == g.kind \in BasicKinds /\ nmut = 0

\* The size of a basic topology: N of the constructor call, 1 for OPG
SizeOfInput == IF inp.kind = "OPG" THEN 1 ELSE inp.N

\* C17: the diameter view of an unmodified URing(N) or BRing(N) returns 0 if
\* N = 1 and floor(N / 2) otherwise, that of an unmodified UMesh(N) or
\* BMesh(N) returns 0 if N = 1 and N - 1 otherwise, that of OPG() returns 0.
C17_ClosedFormValues ==
    (UnmodifiedBasic /\ op.name = "diameter") =>
        op.ret = CASE g.kind \in {"URing", "BRing"} ->
                          IF inp.N = 1 THEN 0 ELSE inp.N \div 2
                   [] g.kind \in {"UMesh", "BMesh"} ->
                          IF inp.N = 1 THEN 0 ELSE inp.N - 1
                   [] g.kind = "OPG" -> 0

\* C17 witness: the diameter of UMesh(3) has been read as 2
C17_Witness ==
    /\ UnmodifiedBasic
    /\ g.kind = "UMesh"
    /\ inp.N = 3
    /\ op.name = "diameter"
    /\ op.ret = 2

\* Number of times the edge i -> j belongs to the pattern of a basic topology
\* of size N
PatternCount(kind, N, i, j) ==
    LET ringFwd == IF N > 1 /\ j = (i + 1) % N THEN 1 ELSE 0
        ringBwd == IF N > 1 /\ i = (j + 1) % N THEN 1 ELSE 0
        meshFwd == IF j = i + 1 THEN 1 ELSE 0
        meshBwd == IF i = j + 1 THEN 1 ELSE 0
    IN  CASE kind = "URing" -> ringFwd
          [] kind = "BRing" -> ringFwd + ringBwd
          [] kind = "UMesh" -> meshFwd
          [] kind = "BMesh" -> meshFwd + meshBwd
          [] kind = "OPG" -> 0

\* C18: a basic generator of size N produces the vertex ids 0..N-1 in order
\* and exactly its edge pattern, each edge as often as the pattern holds it:
\* N edges for URing and 2N for BRing when N > 1 and none when N = 1, N - 1
\* for UMesh, 2(N - 1) for BMesh, none for OPG; BRing and BMesh have twice
\* the edges of URing and UMesh.
C18_EdgePatterns ==
    (UnmodifiedBasic /\ op.name = "ctor") =>
        LET N == SizeOfInput
            edges == EdgesProxy(g)
        IN  /\ VerticesProxy(g) = [k \in 1..N |-> k - 1]
            /\ \A e \in Range(edges) : e[1] \in 0..(N - 1) /\ e[2] \in 0..(N - 1)
            /\ \A i, j \in 0..(N - 1) :
                   Count(edges, <<i, j>>) = PatternCount(g.kind, N, i, j)
            /\ num_edges(g) = CASE g.kind = "URing" -> IF N > 1 THEN N ELSE 0
                                [] g.kind = "BRing" -> IF N > 1 THEN 2 * N ELSE 0
                                [] g.kind = "UMesh" -> N - 1
                                [] g.kind = "BMesh" -> 2 * (N - 1)
                                [] g.kind = "OPG" -> 0
            /\ g.kind = "BRing" => num_edges(g) = 2 * num_edges(URing_ctor(N))
            /\ g.kind = "BMesh" => num_edges(g) = 2 * num_edges(UMesh_ctor(N))

\* C18 witness: BRing(2), where 0 -> 1 and 1 -> 0 are each held twice
C18_Witness ==
    /\ UnmodifiedBasic
    /\ op.name = "ctor"
    /\ g.kind = "BRing"
    /\ inp.N = 2
    /\ Count(EdgesProxy(g), <<0, 1>>) = 2
    /\ Count(EdgesProxy(g), <<1, 0>>) = 2

\* The constructor call of the input names a size 0 or a dimension entry 0
ZeroSizeInput ==
    \/ inp.kind \in SizedKinds /\ inp.N = 0
    \/ inp.kind \in CompositeKinds /\ \E k \in 1..Len(inp.dims) : inp.dims[k] = 0

\* C19: construction fails with InvalidArgument exactly when URing, BRing,
\* UMesh or BMesh is given N = 0 or the dimension list of BGrid or BTorus has
\* an entry 0 at any position; every other call, the empty list and OPG()
\* included, succeeds.
C19_InvalidArgument ==
    op.name = "ctor" =>
        /\ ZeroSizeInput <=> g = invalid_argument
        /\ ~ZeroSizeInput => g.kind = inp.kind

\* C19 witness: BTorus rejected a list whose entry 0 is not the first
C19_Witness ==
    /\ op.name = "ctor"
    /\ inp.kind = "BTorus"
    /\ inp.dims = <<3, 2, 0>>
    /\ g = invalid_argument

----------------------------------------------------------------------------
(* The num_dimensions view *)

\* C20 as stated: num_dimensions returns 1 for an unmodified URing, BRing,
\* UMesh, BMesh or OPG, the length of the canonical dimension sequence for an
\* unmodified BGrid or BTorus, and 0 for every generic graph: a plain Graph, a
\* specialized topology after mutation, and every result of gproduct whatever
\* its factors.
C20_Original ==
    op.name = "num_dimensions" =>
        IF p # NoGraph THEN op.ret = 0
        ELSE op.ret = IF g.kind = "Graph" \/ nmut > 0 THEN 0
                      ELSE IF g.kind \in BasicKinds THEN 1
                      ELSE Len(g.dimensions_)

(***************************************************************************)
(* C21 .. C30                                                              *)
(***************************************************************************)

\* C21 as stated: the graph returned by gproduct is a plain Graph named
\* name(G1) + " (x) " + name(G2) (the separator is a space, the tensor sign
\* and a space) with an empty shape record, and a read of its diameter always
\* returns (it neither throws nor ends the program) and gives the
\* breadth-first value of the vertices and edges the product has at that
\* moment, whatever closed form its factors have.
C21_Original ==
    (h # NoGraph /\ p # NoGraph /\ g # NoGraph) =>
        /\ g.kind = "Graph"
        /\ g.dimension_ = 0
        /\ g.dimensions_ = << >>
        /\ nmut = 0 =>
               g.name = h.name \o <<" ", "E2", "8A", "97", " ">> \o p.name
        /\ op.name \notin {"SIGSEGV"} \cup DestroyedThrows
        /\ op.name = "diameter" => op.ret = PathDiameter(g)

\* Decimal numeral of n, least significant digit taken off first
RECURSIVE Numeral(_)
Numeral(n) ==
    LET last == CHOOSE c \in 0..9 : (n - c) % 10 = 0
        digit == SubSeq(Digits, last + 1, last + 1)
    IN  IF n = last THEN digit ELSE Numeral((n - last) \div 10) \o digit

\* The entries of d as numerals with a comma between neighbours
RECURSIVE CommaJoined(_)
CommaJoined(d) ==
    IF Len(d) = 1 THEN Numeral(d[1])
    ELSE CommaJoined(SubSeq(d, 1, Len(d) - 1)) \o <<",">> \o Numeral(d[Len(d)])

\* The entries of s in descending order
Arranged(s) ==
    CHOOSE t \in [1..Len(s) -> Range(s)] :
        /\ SameBag(t, s)
        /\ \A k \in 1..(Len(t) - 1) : t[k] >= t[k + 1]

\* C22: the name of an unmodified BGrid or BTorus is built from its
\* canonical sequence only: "<Kind>[]" for [1], "<Kind>[d1]" for one entry
\* greater than 1 and "<Kind>[d1,...,dk]", comma-joined in descending order
\* without spaces, for k >= 2; the order and the 1-entries of the input
\* leave no trace in it.
C22_CompositeName ==
    ConstructedComposite =>
        LET d == g.dimensions_
            kept == NonOnes(inp.dims)
            kindName == IF g.kind = "BGrid"
                        THEN <<"B", "G", "r", "i", "d">>
                        ELSE <<"B", "T", "o", "r", "u", "s">>
            inner == IF d = <<1>> THEN << >> ELSE CommaJoined(d)
            fromInput == IF kept = << >> THEN << >>
                         ELSE CommaJoined(Arranged(kept))
        IN  /\ g.name = kindName \o <<"[">> \o inner \o <<"]">>
            /\ g.name = kindName \o <<"[">> \o fromInput \o <<"]">>

\* BTorus({1, 2, 3}) is named "BTorus[3,2]"
C22_Witness ==
    /\ ConstructedComposite
    /\ g.kind = "BTorus"
    /\ inp.dims = <<1, 2, 3>>
    /\ g.name = <<"B", "T", "o", "r", "u", "s", "[", "3", ",", "2", "]">>

\* C23: on a BGrid or BTorus whose canonical sequence has length L,
\* dimensions[index] returns the entry at position index (counted from 0)
\* when index < L and throws out_of_range when index >= L, and
\* dimensions.size() returns L, which is 1 for the sequence [1].
C23_IndexedDimensions ==
    g.kind \in CompositeKinds =>
        LET d == MultiDimensionProxy_get(g)
            L == Len(d)
        IN  /\ L >= 1
            /\ op.name = "dimensions[]" =>
                   IF op.a < L
                   THEN op.ret.thrown = "none" /\ op.ret.value = d[op.a + 1]
                   ELSE op.ret.thrown = "out_of_range"
            /\ op.name = "dimensions.size" =>
                   /\ op.ret = L
                   /\ NonOnes(inp.dims) = << >> => (d = <<1>> /\ op.ret = 1)

\* BGrid({2, 2}).dimensions[2] throws, as for the grid of two entries in the
\* test DimensionIndexOutOfRange
C23_Witness ==
    /\ g.kind = "BGrid"
    /\ inp.dims = <<2, 2>>
    /\ op.name = "dimensions[]"
    /\ op.a = 2
    /\ op.ret.thrown = "out_of_range"

\* C24: the diameter of a plain Graph is never cached: after any sequence of
\* add_vertex and add_edge calls every read returns the breadth-first value
\* of the graph as it is at that read and leaves the graph alone, whatever
\* the reads before it returned.
C24_NeverCached ==
    [][op'.name = "diameter" =>
          /\ op'.ret = PathDiameter(g')
          /\ g' = g]_vars

\* A read that returns another value than the read before it did
C24_Witness ==
    /\ op.name = "diameter"
    /\ p # NoGraph
    /\ p # g
    /\ PathDiameter(p) # op.ret
    /\ PathDiameter(p) >= 0
    /\ op.ret >= 0

\* The arguments of the encoding are in the domain of the round trip:
\* n >= 1, a >= 0, 0 <= b < n, and a * n + b is an int32_t
CodecDomain ==
    /\ inp.g2_size >= 1
    /\ inp.g1_id >= 0
    /\ inp.g2_id >= 0 /\ inp.g2_id < inp.g2_size
    /\ inp.g1_id <= (Int32Max - inp.g2_id) \div inp.g2_size

\* C25: for n >= 1, a >= 0 and 0 <= b < n with a * n + b in the 32-bit
\* range, encode_vertex_pair(a, b, n) is a * n + b and decode_vertex_pair
\* of that id and n is the pair (a, b).
C25_RoundTrip ==
    (inp.kind = "encode_vertex_pair" /\ CodecDomain) =>
        /\ op.name = "encode_vertex_pair" =>
               /\ op.ret = inp.g1_id * inp.g2_size + inp.g2_id
               /\ op.ret >= 0
        /\ op.name = "decode_vertex_pair" =>
               /\ op.a = inp.g1_id * inp.g2_size + inp.g2_id
               /\ op.ret = <<inp.g1_id, inp.g2_id>>

\* decode_vertex_pair(5, 3) = (1, 2), as in the test UtilityFunctions
C25_Witness ==
    /\ inp.kind = "encode_vertex_pair"
    /\ CodecDomain
    /\ inp.g1_id = 1 /\ inp.g2_id = 2 /\ inp.g2_size = 3
    /\ op = Call("decode_vertex_pair", 5, 3, <<1, 2>>)

\* C26: add_vertex and add_edge never change the name of a plain Graph: a
\* default-constructed graph (and one constructed from a BaseGraph) stays
\* "Generic" and a product keeps the name name(G1) + " (x) " + name(G2) it
\* was returned with, after any sequence of mutations.
C26_PlainNameKept ==
    /\ (g # NoGraph /\ p = NoGraph) =>
           g.name = <<"G", "e", "n", "e", "r", "i", "c">>
    /\ (g # NoGraph /\ h # NoGraph /\ p # NoGraph /\ nmut > 0) =>
           g.name = h.name \o <<" ", "E2", "8A", "97", " ">> \o p.name

\* gproduct(OPG(), UMesh(2)) after add_vertex: three vertices, name kept,
\* as in the test ModificationAfterCartesianProduct
C26_Witness ==
    /\ g # NoGraph /\ h # NoGraph /\ p # NoGraph
    /\ h.kind = "OPG" /\ p.kind = "UMesh"
    /\ op.name = "add_vertex"
    /\ nmut >= 1
    /\ num_vertices(g) = 3
    /\ g.name = NameOPG \o NameTensor \o NameUMesh

(***************************************************************************)
(* Frame conditions                                                        *)
(***************************************************************************)

\* The name a specialized class gives itself, for the basic classes
ClassName(kind) ==
    CASE kind = "URing" -> <<"U", "R", "i", "n", "g">>
      [] kind = "BRing" -> <<"B", "R", "i", "n", "g">>
      [] kind = "UMesh" -> <<"U", "M", "e", "s", "h">>
      [] kind = "BMesh" -> <<"B", "M", "e", "s", "h">>
      [] kind = "OPG" -> <<"O", "P", "G">>

\* Everything the views of an instance return, for the graph gr its proxies
\* refer to
AllViews(gr) == [view \in CopyViewNames |-> CopyView(gr, view)]

\* C27 as stated: only add_vertex and add_edge called on the instance itself
\* change a graph, and no state is shared between instances: what the views
\* of an instance return changes only in a step that is an add_vertex or
\* add_edge call on that instance. The instance here is the copy p.
C27_Original ==
    [][(p # NoGraph /\ AllViews(g') # AllViews(g)) =>
           op'.name \in {"copy.add_vertex", "copy.add_edge"}]_vars

\* C28: add_vertex and add_edge never modify the shape record: on a
\* specialized topology that mutations have made Generic, a read of dimension
\* (URing, BRing, UMesh, BMesh, OPG) returns the size given to the
\* constructor (1 for OPG) and a read of dimensions (BGrid, BTorus) returns
\* the canonical sequence of the list given to the constructor; no read
\* fails.
C28_ShapeRecordKept ==
    (g.kind \in SpecializedKinds /\ nmut >= 1) =>
        /\ g.kind \in BasicKinds => g.dimension_ = SizeOfInput
        /\ op.name = "dimension" => op.ret = SizeOfInput
        /\ op.name = "dimensions" =>
               /\ op.ret = g.dimensions_
               /\ op.ret = IF NonOnes(inp.dims) = << >> THEN <<1>>
                           ELSE Arranged(NonOnes(inp.dims))

\* BTorus({2, 1}) after one mutation still reports the dimensions [2]
C28_Witness ==
    /\ g.kind = "BTorus"
    /\ inp.dims = <<2, 1>>
    /\ nmut >= 1
    /\ g.name = NameGeneric
    /\ op.name = "dimensions"
    /\ op.ret = <<2>>

(***************************************************************************)
(* Counts and order of the vertex and edge views                           *)
(***************************************************************************)

\* The sequence t is the sequence s with x inserted at one position
InsertedOnce(s, t, x) ==
    /\ Len(t) = Len(s) + 1
    /\ \E k \in 1..Len(t) :
           /\ t[k] = x
           /\ \A m \in 1..Len(s) : s[m] = t[IF m < k THEN m ELSE m + 1]

\* C29 as stated: every add_vertex(id) call appends id to the vertices view
\* and leaves the edges view alone; every add_edge(i, j) call leaves the
\* vertices view alone and adds the one pair (i, j) to the edges view when
\* both ids are carried by vertices at the call, and nothing otherwise; every
\* other operation leaves the graph as it is. So after any sequence of
\* operations num_vertices is the initial count plus the number of
\* add_vertex calls, num_edges the initial count plus the number of add_edge
\* calls with both ids present, neither count ever decreases, and each view
\* has the length its count reports.
C29_Original ==
    [][IF g' = g
       THEN /\ op'.name # "add_vertex"
            /\ op'.name = "add_edge" =>
                   ~(op'.a \in Range(VerticesProxy(g)) /\ op'.b \in Range(VerticesProxy(g)))
       ELSE LET vs0 == VerticesProxy(g)
                es0 == EdgesProxy(g)
                vs1 == VerticesProxy(g')
                es1 == EdgesProxy(g')
            IN  /\ Len(vs0) = num_vertices(g)
                /\ Len(es0) = num_edges(g)
                /\ Len(vs1) = num_vertices(g')
                /\ Len(es1) = num_edges(g')
                /\ num_vertices(g') >= num_vertices(g)
                /\ num_edges(g') >= num_edges(g)
                /\ op'.name \in {"add_vertex", "add_edge"}
                /\ op'.name = "add_vertex" =>
                       /\ vs1 = vs0 \o <<op'.a>>
                       /\ num_vertices(g') = num_vertices(g) + 1
                       /\ es1 = es0
                /\ op'.name = "add_edge" =>
                       /\ vs1 = vs0
                       /\ IF op'.a \in Range(vs0) /\ op'.b \in Range(vs0)
                          THEN /\ num_edges(g') = num_edges(g) + 1
                               /\ InsertedOnce(es0, es1, <<op'.a, op'.b>>)
                          ELSE es1 = es0]_vars

(***************************************************************************)
(* Duplicate ids                                                           *)
(***************************************************************************)

\* Position of the vertex inserted last among those that carry the id i
MostRecent(vs, i) ==
    CHOOSE k \in 1..Len(vs) : vs[k] = i /\ \A m \in (k + 1)..Len(vs) : vs[m] # i

\* C30: add_vertex never rejects an id that a vertex already carries: the
\* call appends one more vertex with that id. When several vertices carry
\* the same id, add_edge(i, j) adds exactly one edge, from the most recently
\* inserted vertex with id i to the most recently inserted vertex with id j,
\* and no out-list of another vertex changes.
C30_DuplicateIds ==
    [][/\ op'.name = "add_vertex" =>
              /\ g'.vs = Append(g.vs, op'.a)
              /\ Count(g'.vs, op'.a) = Count(g.vs, op'.a) + 1
              /\ g'.out = Append(g.out, << >>)
       /\ (op'.name = "add_edge" /\ op'.a \in Range(g.vs) /\ op'.b \in Range(g.vs)) =>
              LET u == MostRecent(g.vs, op'.a)
                  v == MostRecent(g.vs, op'.b)
              IN  /\ g'.vs = g.vs
                  /\ g'.out[u] = Append(g.out[u], v)
                  /\ \A w \in DOMAIN g.out : w # u => g'.out[w] = g.out[w]
                  /\ num_edges(g') = num_edges(g) + 1]_vars

\* Vertices 0, 1, 0 and add_edge(0, 1): the edge leaves the third vertex,
\* not the first
C30_Witness ==
    /\ g.vs = <<0, 1, 0>>
    /\ op = Call("add_edge", 0, 1, 0)
    /\ g.out = << << >>, << >>, <<2>> >>
    /\ EdgesProxy(g) = << <<0, 1>> >>

====
